---- MODULE Spec2Model ----
\* Model of nipo, the pino based logging plugin for hapi: the event handlers of
\* lib/index.js, their guard (safeHandler), the dynamic subscription of the
\* debug and info tier handlers (onLevelChange) and the tag level lookup.
EXTENDS Integers, Sequences, FiniteSets, TLC

VARIABLES
    options,        \* registration options: logResponse configured?, tagLevels
    responseLevel,  \* levelVal of nipo.responseLogger
    eventLevel,     \* levelVal of nipo.eventLogger
    listeners,      \* handler -> number of subscriptions on server.events
    responded,      \* requests whose 'response' event has been emitted
    last,           \* the event delivered last, with its inputs and outcome
    calls,          \* server.events.on / removeListener calls of the last step
    out,            \* logger calls made while handling the last event
    log,            \* every logger call so far, in order (kept when asked)
    lk,             \* arguments and result of a direct lookupLevel call
    js,             \* heap, argument and results of direct safeJsonObject calls
    nipo,           \* server.plugins.nipo: the tag level map built at registration
    sz,             \* errors, argument and result of a direct serializers.err call
    rt,             \* the routes of the server, its phase and the last translation
    sv,             \* several servers with the plugin: their subscriptions
    rr              \* a response, its request, and the route and res built for it

vars == <<options, responseLevel, eventLevel, listeners, responded, last, calls, out, log, lk,
          js, nipo, sz, rt, sv, rr>>

-----------------------------------------------------------------------------
\* Bounds of the model

NumRequests == 2
MaxTags == 3
MaxLog == 3
NumObjects == 2
NumErrors == 2
NumRoutes == 2
NumServers == 2

Requests == 1..NumRequests

-----------------------------------------------------------------------------
\* pino levels (Pino().levels)

LevelNames == {"trace", "debug", "info", "warn", "error", "fatal"}

\* the level value of 'silent'; above every level
Infinity == 1000

values == [trace |-> 10, debug |-> 20, info |-> 30, warn |-> 40, error |-> 50,
           fatal |-> 60, silent |-> Infinity]

labels(v) == CHOOSE l \in LevelNames : values[l] = v

Thresholds == LevelNames \cup {"silent"}

\* logger.isLevelEnabled(level)
isLevelEnabled(levelVal, level) == values[level] >= levelVal

\* prevVal of the eager onLevelChange call at registration (undefined)
NoPrev == -1

-----------------------------------------------------------------------------
\* Log records: one per logger method call. A call below the logger's
\* threshold is a no-op in pino: visible = FALSE.

Rec(logger, level, msg, fields, request, message, levelVal) ==
    [logger |-> logger, level |-> level, msg |-> msg, fields |-> fields,
     request |-> request, message |-> message,
     visible |-> values[level] >= levelVal]

\* what a handler did: the records it wrote and the value it threw ("none")
Outcome(recs, thrown) == [recs |-> recs, thrown |-> thrown]

\* thrown values
Falsy == {"undefined", "null"}
ThrownValues == {"error", "undefined", "null", "string", "noctor"}

\* the handler names given to safeHandler
Handlers == {"onResponseHandler", "onRequestErrorHandler", "onRequestInternalHandler",
             "onLogInternalHandler", "onRequestAppHandler", "onLogAppHandler",
             "onServerState"}

\* an event as delivered to a handler, with the fault the environment injects:
\* failAt names the step of the handler that throws (if it is reached), thrown
\* the value it throws, fatalFails whether eventLogger.fatal throws too
BaseEvent ==
    [kind |-> "none", request |-> 0, tags |-> <<>>, response |-> FALSE,
     statusCode |-> 0, error |-> FALSE, gate |-> "none", implementation |-> FALSE,
     failAt |-> "none", thrown |-> "none", fatalFails |-> FALSE,
     prevVal |-> NoPrev, delivered |-> 0, caught |-> "none", propagated |-> FALSE]

Fails(ev, step) == ev.failAt = step

-----------------------------------------------------------------------------
\* Tag levels

prepareLevelMapBuiltin(tagLevels) ==
    [t \in LevelNames \cup DOMAIN tagLevels |->
        IF t \in LevelNames THEN values[t] ELSE values[tagLevels[t]]]

\* internals.prepareLevelMap: every pino level name maps to itself, overlaid
\* with the user's tagLevels (tag -> level name)
prepareLevelMap(tagLevels) ==
    [t \in LevelNames \cup DOMAIN tagLevels |->
        IF t \in DOMAIN tagLevels THEN values[tagLevels[t]] ELSE values[t]]

\* the for loop of internals.lookupLevel, from tag i on
RECURSIVE lookupLoop(_, _, _, _)
lookupLoop(tags, i, level, map) ==
    IF i > Len(tags) THEN level
    ELSE LET tag == tags[i]
             \* map.get(tag) is undefined for an unknown tag: undefined > level is false
             higher == tag \in DOMAIN map /\ map[tag] > level
         IN lookupLoop(tags, i + 1, IF higher THEN map[tag] ELSE level, map)

\* mutant of lookupLevel: the scan starts at the default level, so a tag below
\* the default never wins
lookupLevelFloor(tags, defaultLevel, map) ==
    labels(lookupLoop(tags, 1, values[defaultLevel], map))

\* mutant of lookupLevel: the first tag that names a level decides
lookupLevelFirst(tags, defaultLevel, map) ==
    LET keyed == {i \in DOMAIN tags : tags[i] \in DOMAIN map}
    IN IF keyed = {} THEN defaultLevel
       ELSE labels(map[tags[CHOOSE i \in keyed : \A j \in keyed : i <= j]])

\* internals.lookupLevel
lookupLevel(tags, defaultLevel, map) ==
    LET level == lookupLoop(tags, 1, -1, map)
    IN IF level = -1 THEN defaultLevel ELSE labels(level)

-----------------------------------------------------------------------------
\* Event translators. Each returns the Outcome of one run: the logger calls
\* made, in order, and the value thrown ("none" when it returned).

\* mutant of logResponseError: no 5xx response is traced
logResponseErrorNon5xx(ev, eventVal) ==
    IF ev.error /\ ev.statusCode < 500 /\ isLevelEnabled(eventVal, "trace")
    THEN IF Fails(ev, "trace")
         THEN Outcome(<<>>, ev.thrown)
         ELSE Outcome(<<Rec("event", "trace", "request-internal",
                            {"request", "tags", "err"}, ev.request, "", eventVal)>>, "none")
    ELSE Outcome(<<>>, "none")

\* internals.logResponseError (logger is always nipo.eventLogger)
logResponseError(ev, eventVal) ==
    IF ev.error /\ ev.statusCode # 500 /\ isLevelEnabled(eventVal, "trace")
    THEN IF Fails(ev, "trace")
         THEN Outcome(<<>>, ev.thrown)
         ELSE Outcome(<<Rec("event", "trace", "request-internal",
                            {"request", "tags", "err"}, ev.request, "", eventVal)>>, "none")
    ELSE Outcome(<<>>, "none")

\* mutant of statusLevel: a 400 is not yet a warning
statusLevelAbove400(statusCode) ==
    IF statusCode > 400 THEN (IF statusCode >= 500 THEN "error" ELSE "warn") ELSE "info"

\* the level of a response line when the gate forces none
statusLevel(statusCode) ==
    IF statusCode >= 400 THEN (IF statusCode >= 500 THEN "error" ELSE "warn") ELSE "info"

\* mutant of isFalsy: the gate's result never suppresses the line
isFalsyNever(result) == FALSE

\* !result, for the gate's result
isFalsy(result) == result = "false"

\* mutant of gateLevel: a string result is not taken as the level
gateLevelIgnored(gated, result) == "unset"

\* logLevel after the gate: its result when that is a string (true and false
\* are the results that are no strings), else unset
gateLevel(gated, result) ==
    IF gated /\ result \notin {"true", "false"} THEN result ELSE "unset"

\* mutant of responseWrite: the response line is written before the records
\* of the associated error check
responseWriteFirst(ev, logLevel, recs, responseVal) ==
    IF Fails(ev, "write") THEN Outcome(recs, ev.thrown)
    ELSE IF logLevel \notin Thresholds THEN Outcome(recs, "error")
    ELSE IF logLevel = "silent" THEN Outcome(recs, "none")
    ELSE Outcome(<<Rec("response", logLevel, "request-response",
                       {"req", "route", "res"}, ev.request, "", responseVal)>> \o recs, "none")

\* nipo.responseLogger[logLevel]({ req, route, res }, 'request-response') after
\* the records recs were written; a name that is no method of the logger is a
\* TypeError, and silent is pino's no-op
responseWrite(ev, logLevel, recs, responseVal) ==
    IF Fails(ev, "write") THEN Outcome(recs, ev.thrown)
    ELSE IF logLevel \notin Thresholds THEN Outcome(recs, "error")
    ELSE IF logLevel = "silent" THEN Outcome(recs, "none")
    ELSE Outcome(Append(recs, Rec("response", logLevel, "request-response",
                                  {"req", "route", "res"}, ev.request, "", responseVal)), "none")

\* mutant of onResponseHandler: a suppressed response returns at once
onResponseHandlerSuppressAll(logResponse, ev, eventVal, responseVal) ==
    LET gated == ev.response /\ logResponse
    IN  IF gated /\ Fails(ev, "gate") THEN Outcome(<<>>, ev.thrown)
        ELSE IF gated /\ isFalsy(ev.gate)
        THEN Outcome(<<>>, "none")
        ELSE LET forced == gateLevel(gated, ev.gate)
             IN  IF Fails(ev, "translate") THEN Outcome(<<>>, ev.thrown)
                 ELSE IF ~ev.response
                 THEN IF Fails(ev, "write") THEN Outcome(<<>>, ev.thrown)
                      ELSE Outcome(<<Rec("response", "debug", "request-aborted",
                                         {"req", "route"}, ev.request, "", responseVal)>>, "none")
                 ELSE LET tr == IF ev.error THEN logResponseError(ev, eventVal)
                                ELSE Outcome(<<>>, "none")
                          logLevel == IF forced = "unset" THEN statusLevel(ev.statusCode)
                                      ELSE forced
                      IN  IF tr.thrown # "none" THEN tr
                          ELSE IF Fails(ev, "props") THEN Outcome(tr.recs, ev.thrown)
                          ELSE responseWrite(ev, logLevel, tr.recs, responseVal)

\* mutant of onResponseHandler: the gate is called for an aborted request too
onResponseHandlerGateAlways(logResponse, ev, eventVal, responseVal) ==
    LET gated == logResponse
    IN  IF gated /\ Fails(ev, "gate") THEN Outcome(<<>>, ev.thrown)
        ELSE IF gated /\ isFalsy(ev.gate)
        THEN logResponseError(ev, eventVal)
        ELSE LET forced == gateLevel(ev.response /\ gated, ev.gate)
             IN  IF Fails(ev, "translate") THEN Outcome(<<>>, ev.thrown)
                 ELSE IF ~ev.response
                 THEN IF Fails(ev, "write") THEN Outcome(<<>>, ev.thrown)
                      ELSE Outcome(<<Rec("response", "debug", "request-aborted",
                                         {"req", "route"}, ev.request, "", responseVal)>>, "none")
                 ELSE LET tr == IF ev.error THEN logResponseError(ev, eventVal)
                                ELSE Outcome(<<>>, "none")
                          logLevel == IF forced = "unset" THEN statusLevel(ev.statusCode)
                                      ELSE forced
                      IN  IF tr.thrown # "none" THEN tr
                          ELSE IF Fails(ev, "props") THEN Outcome(tr.recs, ev.thrown)
                          ELSE responseWrite(ev, logLevel, tr.recs, responseVal)

\* internals.onResponseHandler; logResponse is whether the gate is configured,
\* ev.gate what it returns for this request
onResponseHandler(logResponse, ev, eventVal, responseVal) ==
    LET gated == ev.response /\ logResponse
    IN  IF gated /\ Fails(ev, "gate") THEN Outcome(<<>>, ev.thrown)
        ELSE IF gated /\ isFalsy(ev.gate)
        THEN \* no response logging, but still check for event logging
             logResponseError(ev, eventVal)
        ELSE LET forced == gateLevel(gated, ev.gate)
             IN  IF Fails(ev, "translate") THEN Outcome(<<>>, ev.thrown)
                 ELSE IF ~ev.response
                 THEN IF Fails(ev, "write") THEN Outcome(<<>>, ev.thrown)
                      ELSE Outcome(<<Rec("response", "debug", "request-aborted",
                                         {"req", "route"}, ev.request, "", responseVal)>>, "none")
                 ELSE LET tr == IF ev.error THEN logResponseError(ev, eventVal)
                                ELSE Outcome(<<>>, "none")
                          logLevel == IF forced = "unset" THEN statusLevel(ev.statusCode)
                                      ELSE forced
                      IN  IF tr.thrown # "none" THEN tr
                          ELSE IF Fails(ev, "props") THEN Outcome(tr.recs, ev.thrown)
                          ELSE responseWrite(ev, logLevel, tr.recs, responseVal)

\* mutant of eventWrite: the record goes to the response logger
eventWriteToResponse(ev, translates, level, msg, fields, eventVal) ==
    IF translates /\ Fails(ev, "translate") THEN Outcome(<<>>, ev.thrown)
    ELSE IF Fails(ev, "write") THEN Outcome(<<>>, ev.thrown)
    ELSE Outcome(<<Rec("response", level, msg, fields, ev.request, "", eventVal)>>, "none")

\* this[level](obj, msg) on the event logger, after the translation step
eventWrite(ev, translates, level, msg, fields, eventVal) ==
    IF translates /\ Fails(ev, "translate") THEN Outcome(<<>>, ev.thrown)
    ELSE IF Fails(ev, "write") THEN Outcome(<<>>, ev.thrown)
    ELSE Outcome(<<Rec("event", level, msg, fields, ev.request, "", eventVal)>>, "none")

\* mutant of onRequestErrorHandler: the implementation flag is not looked at
onRequestErrorHandlerError(ev, eventVal) ==
    eventWrite(ev, FALSE, "error", "request-error", {"request", "tags", "err"}, eventVal)

\* internals.onRequestErrorHandler
onRequestErrorHandler(ev, eventVal) ==
    LET level == IF ev.implementation THEN "fatal" ELSE "error"
    IN eventWrite(ev, FALSE, level, "request-error", {"request", "tags", "err"}, eventVal)

\* internals.onRequestInternalHandler
onRequestInternalHandler(ev, eventVal) ==
    eventWrite(ev, TRUE, "debug", "request-internal",
               {"request", "tags", "data", "err"}, eventVal)

\* internals.onRequestAppHandler
onRequestAppHandler(ev, tagLevels, eventVal) ==
    LET method == lookupLevel(ev.tags, "info", tagLevels)
    IN eventWrite(ev, TRUE, method, "request-app",
                  {"request", "tags", "data", "err"}, eventVal)

\* internals.onLogInternalHandler
onLogInternalHandler(ev, eventVal) ==
    eventWrite(ev, TRUE, "debug", "log-internal", {"server", "tags", "data", "err"}, eventVal)

\* internals.onLogAppHandler
onLogAppHandler(ev, tagLevels, eventVal) ==
    LET method == lookupLevel(ev.tags, "info", tagLevels)
    IN eventWrite(ev, TRUE, method, "log-app", {"server", "tags", "data", "err"}, eventVal)

\* internals.onServerState
onServerState(ev, state, eventVal) ==
    eventWrite(ev, FALSE, "info", state, {"server.info"}, eventVal)

-----------------------------------------------------------------------------
\* Sanitizer (utils.js): values, the heap, and safeJsonObject

\* a JavaScript value: t is its type tag, n the number, the big integer or the
\* identity of the object (an index of the heap), s the text of a string
Val(t, n, s) == [t |-> t, n |-> n, s |-> s]
Undefined == Val("undefined", 0, "")
Null == Val("null", 0, "")
Number(n) == Val("number", n, "")
NaN == Val("number", 0, "NaN")
BigInt(n) == Val("bigint", n, "")
String(s) == Val("string", 0, s)
Ref(o) == Val("object", o, "")

\* typeof value
typeof(value) == IF value.t = "null" THEN "object" ELSE value.t

\* a === b
StrictEq(a, b) == a = b /\ a # NaN

\* the toJSON property of an object: where it is found ("none", "own" or on
\* the "proto"type), what a call does ("throws" or "returns") and returns
NoToJSON == [where |-> "none", does |-> "returns", ret |-> Undefined]
ToJSON(where, does, ret) == [where |-> where, does |-> does, ret |-> ret]

\* an array or object of the heap: its elements / the values of its own
\* enumerable keys in key order
Obj(kind, slots, toJSON) == [kind |-> kind, slots |-> slots, toJSON |-> toJSON]

\* mutant of copyOf: every copy is made the way an object is copied
copyOfObject(o) == Obj("object", o.slots, NoToJSON)

\* obj.slice() of an array, Object.assign(Object.create(null), orig) of an
\* object: own properties are copied to the object, the prototype is not
copyOf(o) ==
    IF o.kind = "array" THEN Obj("array", o.slots, NoToJSON)
    ELSE Obj("object", o.slots, IF o.toJSON.where = "own" THEN o.toJSON ELSE NoToJSON)

Digit == <<"0", "1", "2", "3", "4", "5", "6", "7", "8", "9">>

\* BigInt.prototype.toString
RECURSIVE toString(_)
toString(n) ==
    IF n < 0 THEN "-" \o toString(-n)
    ELSE IF n < 10 THEN Digit[n + 1]
    ELSE toString(n \div 10) \o Digit[(n % 10) + 1]

\* mutant of bigintString: the digits only
bigintStringPlain(n) == toString(n)

\* `${obj.toString()}n`
bigintString(n) == toString(n) \o "n"

\* mutant of includes: nothing is ever found on the stack
includesNever(stack, origObj) == FALSE

\* stack.includes(origObj)
includes(stack, origObj) == \E i \in DOMAIN stack : stack[i] = origObj

\* stack.push(origObj), stack.pop()
push(stack, origObj) == Append(stack, origObj)

\* mutant of pop: the stack keeps every composite it has seen
popNothing(stack) == stack

pop(stack) == SubSeq(stack, 1, Len(stack) - 1)

\* how a call of safeJsonObject ends: it returns ret or throws, with the heap
\* and the stack it leaves; "deep" when the recursion went deeper than depth
Ended(status, heap, ret, stack) ==
    [status |-> status, heap |-> heap, ret |-> ret, stack |-> stack]

RECURSIVE safeJsonObject(_, _, _, _)
RECURSIVE children(_, _, _, _, _, _)

\* the for loops over the elements of orig (lines 25-35) or its keys (lines
\* 40-50), from slot i on; obj is orig or its copy
children(heap, orig, obj, i, stack, depth) ==
    IF i > Len(heap[orig].slots) THEN Ended("returned", heap, Ref(obj), stack)
    ELSE LET value == heap[orig].slots[i]
             r == safeJsonObject(heap, value, stack, depth - 1)
             jsonValue == r.ret
         IN  IF r.status # "returned" THEN r
             ELSE IF StrictEq(value, jsonValue)
             THEN children(r.heap, orig, obj, i + 1, r.stack, depth)
             ELSE LET fresh == obj = orig
                      copied == IF fresh THEN Append(r.heap, copyOf(r.heap[orig]))
                                ELSE r.heap
                      target == IF fresh THEN Len(copied) ELSE obj
                  IN children([copied EXCEPT ![target].slots[i] = jsonValue],
                              orig, target, i + 1, r.stack, depth)

\* mutant of safeJsonObject: the stack holds the results of the conversions
\* instead of the values they were called on
safeJsonObjectConverted(heap, obj, stack, depth) ==
    IF depth = 0 THEN Ended("deep", heap, Undefined, stack)
    ELSE IF obj = Undefined \/ obj = Null THEN Ended("returned", heap, obj, stack)
    ELSE LET custom == obj.t = "object" /\ heap[obj.n].toJSON.where # "none"
         IN  IF custom /\ heap[obj.n].toJSON.does = "throws"
             THEN Ended("thrown", heap, Undefined, stack)
             ELSE LET conv == IF custom THEN heap[obj.n].toJSON.ret ELSE obj
                      type == typeof(conv)
                  IN  IF type = "object"
                      THEN IF includes(stack, conv)
                           THEN Ended("returned", heap, String("[Circular]"), stack)
                           ELSE IF conv = Null
                           THEN Ended("thrown", heap, Undefined, push(stack, conv))
                           ELSE LET r == children(heap, conv.n, conv.n, 1,
                                                  push(stack, conv), depth)
                                IN IF r.status = "returned"
                                   THEN [r EXCEPT !.stack = pop(r.stack)]
                                   ELSE r
                      ELSE IF type = "bigint"
                      THEN Ended("returned", heap, String(bigintString(conv.n)), stack)
                      ELSE Ended("returned", heap, conv, stack)

\* exports.safeJsonObject(obj, parentKey, stack) on the given heap (parentKey
\* is only handed to toJSON, which is modelled by what it returns)
safeJsonObject(heap, obj, stack, depth) ==
    IF depth = 0 THEN Ended("deep", heap, Undefined, stack)
    ELSE IF obj = Undefined \/ obj = Null THEN Ended("returned", heap, obj, stack)
    ELSE LET origObj == obj
             custom == obj.t = "object" /\ heap[obj.n].toJSON.where # "none"
         IN  IF custom /\ heap[obj.n].toJSON.does = "throws"
             THEN Ended("thrown", heap, Undefined, stack)
             ELSE LET conv == IF custom THEN heap[obj.n].toJSON.ret ELSE obj
                      type == typeof(conv)
                  IN  IF type = "object"
                      THEN IF includes(stack, origObj)
                           THEN Ended("returned", heap, String("[Circular]"), stack)
                           ELSE IF conv = Null
                           THEN \* Object.keys(null) is a TypeError
                                Ended("thrown", heap, Undefined, push(stack, origObj))
                           ELSE LET r == children(heap, conv.n, conv.n, 1,
                                                  push(stack, origObj), depth)
                                IN IF r.status = "returned"
                                   THEN [r EXCEPT !.stack = pop(r.stack)]
                                   ELSE r
                      ELSE IF type = "bigint"
                      THEN Ended("returned", heap, String(bigintString(conv.n)), stack)
                      ELSE Ended("returned", heap, conv, stack)

\* the recursion is at most one call deeper than the number of objects
Deepest(heap) == Len(heap) + 2

NotCalled == Ended("none", <<>>, Undefined, <<>>)

\* no sanitizer call is under observation
NoJson == [heap |-> <<>>, obj |-> Undefined, again |-> FALSE, first |-> NotCalled,
           second |-> NotCalled]

-----------------------------------------------------------------------------
\* Error serializer (serialize.js)

\* values that are no sanitizer values: a reference to an Error instance (an
\* index of errs), and an object that is no Error, with its message property
\* ("" when it has none)
ErrRef(o) == Val("error", o, "")
PlainObject(message) == Val("plain", 0, message)

\* an Error instance: isBoom, whether its constructor is Boom's (plain),
\* its name and its constructor's name, message, cause, data, code, stack and
\* output.statusCode
Err(isBoom, plain, name, ctorName, message, cause, data, code, stack, statusCode) ==
    [isBoom |-> isBoom, plain |-> plain, name |-> name, ctorName |-> ctorName,
     message |-> message, cause |-> cause, data |-> data, code |-> code, stack |-> stack,
     statusCode |-> statusCode]

\* value instanceof Error
instanceofError(value) == value.t = "error"

\* value ?? other
Nullish(value) == value = Undefined \/ value = Null

\* mutant of errorName: the cause is not looked at
errorNameOwn(errs, error) ==
    LET e == errs[error.n]
    IN IF e.isBoom
       THEN LET base == IF e.plain
                        THEN IF e.name # e.ctorName THEN e.name ELSE ""
                        ELSE e.name
            IN IF base # "" THEN "Boom(" \o base \o ")" ELSE "Boom"
       ELSE e.name

\* internals.errorName; Error.prototype.name is 'Error', base "" is undefined
errorName(errs, error) ==
    LET e == errs[error.n]
    IN IF e.isBoom
       THEN LET base == IF e.plain
                        THEN IF instanceofError(e.cause) /\ errs[e.cause.n].name # "Error"
                             THEN errs[e.cause.n].name
                             ELSE IF e.name # e.ctorName THEN e.name ELSE ""
                        ELSE e.name
            IN IF base # "" THEN "Boom(" \o base \o ")" ELSE "Boom"
       ELSE e.name

\* internals.errorCause
errorCause(errs, error) ==
    LET e == errs[error.n]
    IN IF e.cause = Undefined /\ e.isBoom /\ instanceofError(e.data) THEN e.data
       ELSE e.cause

\* String(value): Error.prototype.toString gives the name, followed by the
\* message when there is one
coerce(errs, value) ==
    CASE value.t = "error" ->
            IF Nullish(errs[value.n].message) THEN errs[value.n].name
            ELSE errs[value.n].name \o ": " \o errs[value.n].message.s
      [] value.t = "plain" -> "[object Object]"
      [] value.t = "string" -> value.s
      [] value.t = "number" -> toString(value.n)
      [] value.t = "null" -> "null"
      [] value.t = "undefined" -> "undefined"

\* value.message, for a value that is not null: only errors and objects have
\* the property
messageOf(errs, value) ==
    CASE value.t = "error" -> errs[value.n].message
      [] value.t = "plain" -> IF value.s = "" THEN Undefined ELSE String(value.s)
      [] OTHER -> Undefined

\* (error.message ?? error) as appended to a string
causeText(errs, error) ==
    IF Nullish(messageOf(errs, error)) THEN coerce(errs, error)
    ELSE coerce(errs, messageOf(errs, error))

\* the record under construction
Serialized(keys, type, message, code, data, stack) ==
    [keys |-> keys, type |-> type, message |-> message, code |-> code, data |-> data,
     stack |-> stack]

NoRecord == Serialized({}, "", "", Undefined, Undefined, Undefined)

\* serialized.message += text, serialized.stack += text
plusMessage(serialized, text) == [serialized EXCEPT !.message = @ \o text]
plusStack(serialized, text) == [serialized EXCEPT !.stack = String(coerce(<<>>, @) \o text)]

\* mutant of has: nothing is ever found in the set
hasNever(seen, error) == FALSE

\* seen.has(error); seen lists the errors in the order they were added
has(seen, error) == \E i \in DOMAIN seen : seen[i] = error

\* how a walk ends: "returned", "thrown", or "deep" when the recursion went
\* deeper than depth
Walked(status, serialized, seen) ==
    [status |-> status, serialized |-> serialized, seen |-> seen]

\* internals.addCause on the errors errs
RECURSIVE addCause(_, _, _, _, _, _)
addCause(serialized, error, withStack, seen, errs, depth) ==
    IF depth = 0 THEN Walked("deep", serialized, seen)
    ELSE IF error = Undefined THEN Walked("returned", serialized, seen)
    ELSE IF has(seen, error)
    THEN Walked("returned",
                plusMessage(IF withStack
                            THEN plusStack(serialized, "\ncauses have become circular...")
                            ELSE serialized, ": ..."),
                seen)
    ELSE IF error = Null
    THEN \* error.message of null is a TypeError
         Walked("thrown", serialized, seen)
    ELSE LET named == plusMessage(serialized, ": " \o causeText(errs, error))
         IN  IF instanceofError(error)
             THEN LET stack == errs[error.n].stack
                      traced == IF withStack
                                THEN plusStack(named, "\ncaused by: " \o
                                               (IF Nullish(stack) THEN "<unknown>"
                                                ELSE coerce(errs, stack)))
                                ELSE named
                  IN addCause(traced, errorCause(errs, error), withStack,
                              Append(seen, error), errs, depth - 1)
             ELSE Walked("returned", named, seen)

\* Utils.safeJsonObject of a value that is no composite
sanitized(value) == safeJsonObject(<<>>, value, <<>>, 1).ret

\* what a call of the serializer gives: the input itself (same) or a record,
\* and the errors as they are after the call
Serial(status, same, rec, seen, errs) ==
    [status |-> status, same |-> same, rec |-> rec, seen |-> seen, errs |-> errs]

\* the data the record is built from
dataOf(e, cause) == IF e.isBoom /\ e.data = cause THEN Undefined ELSE e.data

\* mutant of stackIncluded: the stack of the error is not looked at
stackIncludedAnyway(withStack, stack) == withStack

\* withStack &= typeof error.stack === 'string'
stackIncluded(withStack, stack) == withStack /\ stack.t = "string"

\* mutant of errSerializer: a value that is no error is wrapped in a record
errSerializerWrap(errs, error, withStack) ==
    Serial("returned", FALSE, NoRecord, <<>>, errs)

\* internals.errSerializer of serialize.js on the errors errs
errSerializer(errs, error, withStack) ==
    IF ~instanceofError(error) THEN Serial("returned", TRUE, NoRecord, <<>>, errs)
    ELSE LET e == errs[error.n]
             message == coerce(errs, e.message)
             cause == errorCause(errs, error)
             type == errorName(errs, error)
             data == dataOf(e, cause)
             code == IF e.isBoom /\ e.code = Undefined THEN e.statusCode ELSE e.code
             res == Serialized({"type", "message", "code"}
                                 \cup (IF ~Nullish(data) THEN {"data"} ELSE {})
                                 \cup (IF withStack THEN {"stack"} ELSE {}),
                               type, message, sanitized(code),
                               IF ~Nullish(data) THEN sanitized(data) ELSE Undefined,
                               IF withStack THEN sanitized(e.stack) ELSE Undefined)
             w == addCause(res, cause, stackIncluded(withStack, e.stack), <<error>>, errs,
                           Len(errs) + 1)
         IN Serial(w.status, FALSE, w.serialized, w.seen, errs)

\* internals.errSerializer of index.js
errSerializerOfIndex(errs, error) ==
    IF ~instanceofError(error) THEN Serial("returned", TRUE, NoRecord, <<>>, errs)
    ELSE LET e == errs[error.n]
         IN Serial("returned", FALSE,
                   Serialized({"type", "message", "code", "data", "stack"}, e.ctorName,
                              coerce(errs, e.message), sanitized(e.code), sanitized(e.data),
                              e.stack),
                   <<>>, errs)

NotSerialized == Serial("none", FALSE, NoRecord, <<>>, <<>>)

\* no serializer call is under observation
NoSerial == [errs |-> <<>>, error |-> Undefined, withStack |-> TRUE, result |-> NotSerialized,
             ofIndex |-> NotSerialized]

-----------------------------------------------------------------------------
\* Route property maps (index.js)

Boolean(b) == Val("boolean", IF b THEN 1 ELSE 0, "")

\* a path of a property map: a string (segs are its parts between the dots),
\* an array of strings, or a value that is neither (true in the tests)
StringPath(segs) == [kind |-> "string", segs |-> segs]
ArrayPath(segs) == [kind |-> "array", segs |-> segs]
OtherPath == [kind |-> "other", segs |-> <<>>]

\* value.split('.')
split(path) == ArrayPath(path.segs)

\* the req or res property of a route's nipo settings: undefined, an object
\* literal or a Map; entries are pairs <<prop, path>>
NoProps == [kind |-> "undefined", entries |-> <<>>]
PropsObject(entries) == [kind |-> "object", entries |-> entries]
PropsMap(entries) == [kind |-> "map", entries |-> entries]

\* route.settings.plugins: given says 'nipo' in plugins, unknown that the nipo
\* settings have a key other than req and res
Settings(given, req, res, unknown) == [given |-> given, req |-> req, res |-> res, unknown |-> unknown]
NoSettings == Settings(FALSE, NoProps, NoProps, FALSE)

\* the outcome of a validation
Attempt(ok, value) == [ok |-> ok, value |-> value]

\* the alternatives of a path: an array of strings, or a string, which is split
pathSchema(path) ==
    IF path.kind = "array" THEN Attempt(TRUE, path)
    ELSE IF path.kind = "string" THEN Attempt(TRUE, split(path))
    ELSE Attempt(FALSE, path)

\* internals.mapSchema: an object whose values are paths, cast to a Map
mapSchema(props) ==
    IF props.kind = "undefined" THEN Attempt(TRUE, props)
    ELSE IF \A i \in 1..Len(props.entries) : pathSchema(props.entries[i][2]).ok
    THEN Attempt(TRUE, PropsMap([i \in 1..Len(props.entries) |->
                                    <<props.entries[i][1],
                                      pathSchema(props.entries[i][2]).value>>]))
    ELSE Attempt(FALSE, props)

\* Joi.attempt(settings, internals.configSchema): no keys but req and res
configSchema(settings) ==
    IF settings.unknown \/ ~mapSchema(settings.req).ok \/ ~mapSchema(settings.res).ok
    THEN Attempt(FALSE, settings)
    ELSE Attempt(TRUE, Settings(TRUE, mapSchema(settings.req).value,
                                mapSchema(settings.res).value, FALSE))

\* the onPreStart extension on the routes of server.table(), from route i on:
\* the first settings that fail make it throw, the ones before are replaced
RECURSIVE onPreStart(_, _)
onPreStart(routes, i) ==
    IF i > Len(routes) THEN [threw |-> FALSE, routes |-> routes]
    ELSE IF ~routes[i].given THEN onPreStart(routes, i + 1)
    ELSE IF ~configSchema(routes[i]).ok THEN [threw |-> TRUE, routes |-> routes]
    ELSE onPreStart([routes EXCEPT ![i] = configSchema(routes[i]).value], i + 1)

\* Hoek.reach(request, path): a request is a function from the paths that
\* resolve in it to their values
reach(request, path) ==
    IF path.segs \in DOMAIN request THEN request[path.segs] ELSE Undefined

presentTruthy(value) ==
    value \notin {Undefined, Null, Number(0), Boolean(FALSE), String("")}

\* value !== undefined && value !== null
present(value) == value \notin {Undefined, Null}

\* obj[prop] = value
assign(obj, prop, value) ==
    [f \in DOMAIN obj \cup {prop} |-> IF f = prop THEN value ELSE obj[f]]

Applied(status, obj) == [status |-> status, obj |-> obj]

\* the loop of internals.applyUserProps, from entry i of the map on
RECURSIVE applyEntries(_, _, _, _)
applyEntries(request, obj, entries, i) ==
    IF i > Len(entries) THEN obj
    ELSE LET prop == entries[i][1]
             value == reach(request, entries[i][2])
         IN  applyEntries(request,
                          IF present(value) THEN assign(obj, prop, sanitized(value)) ELSE obj,
                          entries, i + 1)

\* internals.applyUserProps(request, obj, map): an object literal is not
\* iterable, for ... of throws a TypeError
applyUserProps(request, obj, map) ==
    IF map.kind = "undefined" THEN Applied("returned", obj)
    ELSE IF map.kind = "object" THEN Applied("thrown", obj)
    ELSE Applied("returned", applyEntries(request, obj, map.entries, 1))

\* the fields of req and res before the route's properties are applied
reqDefaults == [id |-> String("id"), clientIp |-> String("127.0.0.1")]
resDefaults == [statusCode |-> Number(200)]

Line(msg, route, settings, request, req, res) ==
    [msg |-> msg, route |-> route, settings |-> settings, request |-> request, req |-> req,
     res |-> res]

\* the response handler on a request matched by route number route: what the
\* guarded handler writes, with the settings and the request it was called with
translate(route, settings, request) ==
    LET routeSettings == IF settings.given THEN settings ELSE NoSettings
        req == applyUserProps(request, reqDefaults, routeSettings.req)
        res == applyUserProps(request, resDefaults, routeSettings.res)
    IN  IF req.status = "thrown" \/ res.status = "thrown"
        THEN Line("nipo-error", route, settings, request, reqDefaults, resDefaults)
        ELSE Line("request-response", route, settings, request, req.obj, res.obj)

\* the paths that may resolve in a request, and a request in which none does
Resolvable == {<<"headers", "x-real-ip">>, <<"query", "n">>}
NoRequest == [p \in Resolvable |-> Undefined]

NoLine == Line("", 0, NoSettings, NoRequest, reqDefaults, resDefaults)

Routing(phase, routes, line) == [phase |-> phase, routes |-> routes, line |-> line]

\* no route is under observation
NoRouting == Routing("setup", <<>>, NoLine)

-----------------------------------------------------------------------------
\* The route and res fields of a response line (internals.onResponseHandler)

\* response._error: none, or an error with the name of its constructor, its
\* message and its data
NoError == [is |-> FALSE, type |-> "", message |-> "", data |-> Undefined]
ErrorOf(type, message, data) == [is |-> TRUE, type |-> type, message |-> message, data |-> data]

truthyAlways(value) == TRUE

\* if (value)
truthy(value) ==
    value \notin {Undefined, Null, Number(0), NaN, BigInt(0), String(""), Boolean(FALSE)}

\* a || b for numbers
or(a, b) == IF a # 0 THEN a ELSE b

NoFields == [f \in {} |-> Undefined]

\* route: the fields of the matched route, or {} when request.params is null
routeOf(request) ==
    IF request.params # Null
    THEN [id |-> request.route.id, vhost |-> request.route.vhost,
          path |-> request.route.path, realm |-> request.route.realm]
    ELSE NoFields

\* res before the route's properties are applied
resOf(response, info, now) ==
    LET respondedAt == or(or(info.responded, info.completed), now)
        res == [statusCode |-> Number(response.statusCode),
                delay |-> Number(respondedAt - info.received)]
        error == response.error
        reason == IF error.is
                  THEN assign(res, "reason", String(error.type \o ": " \o error.message))
                  ELSE res
    IN  IF error.is /\ truthy(error.data)
        THEN assign(reason, "data", sanitized(error.data))
        ELSE reason

\* the route and res of the line written for a response
Built(done, request, response, route, res) ==
    [done |-> done, request |-> request, response |-> response, route |-> route, res |-> res]

\* no response is under observation
NoResponse ==
    Built(FALSE, [params |-> Null], [statusCode |-> 0, error |-> NoError], NoFields, NoFields)

-----------------------------------------------------------------------------
\* The guard around every handler

\* err.message in the catch block
errMessage(err, handler) ==
    IF err = "unknown" THEN "Unknown throw during: " \o handler
    ELSE IF err = "error" THEN "message"
    ELSE "undefined"

\* the function safeHandler returns, applied to one event: o is what the bound
\* handler did. The result is the records written and whether an exception
\* left the guard.
safeHandler(handler, o, fatalFails, eventVal) ==
    IF o.thrown = "none" THEN [recs |-> o.recs, propagated |-> FALSE]
    ELSE LET err == IF o.thrown \in Falsy THEN "unknown" ELSE o.thrown
         IN  IF err = "noctor"
             THEN \* err.constructor is undefined: the catch block throws
                  [recs |-> o.recs, propagated |-> TRUE]
             ELSE IF fatalFails
             THEN [recs |-> o.recs, propagated |-> TRUE]
             ELSE [recs |-> Append(o.recs,
                                   Rec("event", "fatal", "nipo-error",
                                       {"server", "type", "message", "stack"}, 0,
                                       errMessage(err, handler), eventVal)),
                   propagated |-> FALSE]

-----------------------------------------------------------------------------
\* Dynamic subscription (internals.onLevelChange)

HandlerKeys == {"response", "requestError", "requestInternal", "logInternal",
                "requestApp", "logApp", "start", "stop"}

\* mutant of levelChanged: the previous threshold is not looked at
levelChangedAlways(ref, val, prevVal) ==
    IF values[ref] >= val THEN "true" ELSE "false"

\* levelChanged(ref): "true" / "false" when the group became active / inactive,
\* "undefined" when nothing changed
levelChanged(ref, val, prevVal) ==
    LET refVal == values[ref]
        isActive == refVal >= val
        isPrevActive == prevVal # NoPrev /\ refVal >= prevVal
    IN IF isActive = isPrevActive THEN "undefined"
       ELSE IF isActive THEN "true" ELSE "false"

\* the calls update(ref, handlers) issues, in order
RECURSIVE updateCalls(_, _, _)
updateCalls(method, handlers, i) ==
    IF i > Len(handlers) THEN <<>>
    ELSE <<[method |-> method, handler |-> handlers[i]]>> \o updateCalls(method, handlers, i + 1)

\* mutant of update: removeListener drops every plugin listener of the named
\* events, 'request' and 'log'
updateByName(ref, handlers, val, prevVal, st) ==
    LET active == levelChanged(ref, val, prevVal)
        method == IF active = "true" THEN "on" ELSE "removeListener"
        mine == {handlers[i] : i \in DOMAIN handlers}
        named == {"requestError", "requestInternal", "requestApp", "logInternal", "logApp"}
    IN IF active = "undefined" THEN st
       ELSE [listeners |-> [h \in DOMAIN st.listeners |->
                               IF active = "true"
                               THEN (IF h \in mine THEN st.listeners[h] + 1
                                     ELSE st.listeners[h])
                               ELSE (IF h \in named THEN 0 ELSE st.listeners[h])],
             calls |-> st.calls \o updateCalls(method, handlers, 1)]

\* update(ref, handlers): st is the subscriptions and the calls issued so far.
\* server.events.on adds a subscription; removeListener drops every
\* subscription of that listener.
update(ref, handlers, val, prevVal, st) ==
    LET active == levelChanged(ref, val, prevVal)
        method == IF active = "true" THEN "on" ELSE "removeListener"
        mine == {handlers[i] : i \in DOMAIN handlers}
    IN IF active = "undefined" THEN st
       ELSE [listeners |-> [h \in DOMAIN st.listeners |->
                               IF h \in mine
                               THEN (IF active = "true" THEN st.listeners[h] + 1 ELSE 0)
                               ELSE st.listeners[h]],
             calls |-> st.calls \o updateCalls(method, handlers, 1)]

\* internals.onLevelChange(server, lvl, val, prevLvl, prevVal)
onLevelChange(ls, val, prevVal) ==
    update("info", <<"requestApp", "logApp">>, val, prevVal,
           update("debug", <<"requestInternal", "logInternal">>, val, prevVal,
                  [listeners |-> ls, calls |-> <<>>]))

\* internals.register: the subscriptions once registration is done
register(val) ==
    onLevelChange([h \in HandlerKeys |->
                      IF h \in {"response", "requestError", "start", "stop"} THEN 1 ELSE 0],
                  val, NoPrev)

-----------------------------------------------------------------------------
\* The plugin on several servers. internals.handlers is one object of the
\* module: every registration replaces it, and onLevelChange reads it when it
\* runs.

Servers == 1..NumServers

Dynamic == {"requestInternal", "logInternal", "requestApp", "logApp"}

\* the listeners of one server's events: handler -> (server whose guarded
\* handler it is -> number of subscriptions)
NoListeners == [h \in Dynamic |-> [o \in Servers |-> 0]]

\* update(ref, handlers) on the events of one server, with the handlers that
\* internals.handlers holds at the time, those of the server current
updateWith(ref, handlers, val, prevVal, current, ls) ==
    LET active == levelChanged(ref, val, prevVal)
    IN IF active = "undefined" THEN ls
       ELSE [h \in Dynamic |->
                IF h \in handlers
                THEN [ls[h] EXCEPT ![current] = IF active = "true" THEN @ + 1 ELSE 0]
                ELSE ls[h]]

\* internals.onLevelChange bound to one server and its event logger
onLevelChangeWith(ls, val, prevVal, current) ==
    updateWith("info", {"requestApp", "logApp"}, val, prevVal, current,
               updateWith("debug", {"requestInternal", "logInternal"}, val, prevVal,
                          current, ls))

\* what the listeners of an event wrote: written[o] is the number of records
\* on the event logger of server o, which carry the id of server o when the
\* handler is bound to a server id
Emitted(server, handler, written) ==
    [server |-> server, handler |-> handler, written |-> written]

SeveralServers(registered, handlers, level, events, emitted) ==
    [registered |-> registered, handlers |-> handlers, level |-> level, events |-> events,
     emitted |-> emitted]

\* no server has the plugin yet
NoServers ==
    SeveralServers({}, 0, [s \in Servers |-> values["info"]], [s \in Servers |-> NoListeners],
                   Emitted(0, "none", [o \in Servers |-> 0]))

-----------------------------------------------------------------------------
\* Inputs

\* user tagLevels options
NoTagLevels == [t \in {} |-> "info"]
TagLevelOptions == {NoTagLevels, [my |-> "warn", hello |-> "debug"]}

Tags == {"app", "my", "hello", "error", "trace", "Warn"}

RECURSIVE SeqsUpTo(_, _)
SeqsUpTo(S, n) ==
    IF n = 0 THEN {<<>>}
    ELSE LET shorter == SeqsUpTo(S, n - 1)
         IN shorter \cup {Append(q, x) : q \in {p \in shorter : Len(p) = n - 1}, x \in S}

\* a fault: which step throws, what it throws, whether eventLogger.fatal throws
NoFault == [failAt |-> "none", thrown |-> "none", fatalFails |-> FALSE]
FaultsOf(steps, thrownValues, fatal) ==
    {NoFault} \cup [failAt : steps, thrown : thrownValues, fatalFails : fatal]

\* response shapes: aborted (no response), or a status with or without an
\* internal error (hapi attaches _error to error responses only)
Aborted == [response |-> FALSE, statusCode |-> 0, error |-> FALSE]
Responded(statusCode, error) == [response |-> TRUE, statusCode |-> statusCode, error |-> error]
Responses(statuses) ==
    {Aborted} \cup {Responded(c, e) : c \in statuses, e \in {FALSE}}
              \cup {Responded(c, e) : c \in {x \in statuses : x >= 400}, e \in {TRUE}}

\* the inputs the environment draws from in the general specification
General ==
    [responses |-> Responses({200, 399, 400, 499, 500, 503}),
     gates |-> {"false", "true", "fatal", "debug", "verbose"},
     faults |-> FaultsOf({"gate", "write"}, {"error"}, {FALSE}),
     tagSeqs |-> {<<>>, <<"app">>, <<"my", "app">>, <<"app", "error">>, <<"trace", "app">>},
     eventLevels |-> Thresholds,
     responseLevels |-> Thresholds,
     keep |-> FALSE]

-----------------------------------------------------------------------------
\* State machine

RECURSIVE Repeat(_, _)
Repeat(recs, n) == IF n = 0 THEN <<>> ELSE recs \o Repeat(recs, n - 1)

NoLookup == [tags |-> <<>>, defaultLevel |-> "info", map |-> prepareLevelMap(NoTagLevels),
             result |-> "", done |-> TRUE]

\* the state once internals.register has returned
InitAll(opts, levels, lookups, jsons, serials, routings) ==
    /\ options \in opts
    /\ nipo = [tagLevels |-> prepareLevelMap(options.tagLevels)]
    /\ \E l \in levels :
        /\ responseLevel = values[l]
        /\ eventLevel = values[l]
        /\ listeners = register(values[l]).listeners
        /\ calls = register(values[l]).calls
    /\ responded = {}
    /\ last = [BaseEvent EXCEPT !.kind = "register"]
    /\ out = <<>>
    /\ log = <<>>
    /\ lk \in lookups
    /\ js \in jsons
    /\ sz \in serials
    /\ rt \in routings
    /\ sv = NoServers
    /\ rr = NoResponse

InitPlugin(opts, levels, lookups, jsons) ==
    InitAll(opts, levels, lookups, jsons, {NoSerial}, {NoRouting})

InitWith(opts, levels, lookups) == InitPlugin(opts, levels, lookups, {NoJson})

Init == InitWith([logResponse : BOOLEAN, tagLevels : TagLevelOptions], Thresholds, {NoLookup})

\* events are delivered one at a time: no dispatch is in progress
Idle == last = BaseEvent

\* the framework emits ev to the n subscriptions of a handler; res is what one
\* guarded run of the handler does
Deliver(B, ev, n, thrown, res) ==
    /\ Idle
    /\ B.keep => Len(log) < MaxLog
    /\ last' = [ev EXCEPT !.delivered = n,
                          !.caught = IF n > 0 THEN thrown ELSE "none",
                          !.propagated = n > 0 /\ res.propagated]
    /\ out' = Repeat(res.recs, n)
    /\ log' = IF B.keep THEN log \o out' ELSE log
    /\ calls' = <<>>
    /\ UNCHANGED <<options, responseLevel, eventLevel, listeners, lk, js, nipo, sz, rt, sv, rr>>

Fault(ev, f) ==
    [ev EXCEPT !.failAt = f.failAt, !.thrown = f.thrown, !.fatalFails = f.fatalFails]

\* 'response' event: a request completed or was aborted
Response(B) ==
    \E r \in Requests \ responded, x \in B.responses, f \in B.faults,
       g \in B.gates \cup {"none"} :
        /\ (g = "none") <=> ~(x.response /\ options.logResponse)
        /\ LET ev == Fault([BaseEvent EXCEPT !.kind = "response", !.request = r,
                                             !.response = x.response,
                                             !.statusCode = x.statusCode,
                                             !.error = x.error, !.gate = g], f)
               o == onResponseHandler(options.logResponse, ev, eventLevel, responseLevel)
           IN Deliver(B, ev, listeners["response"], o.thrown,
                      safeHandler("onResponseHandler", o, ev.fatalFails, eventLevel))
        /\ responded' = responded \cup {r}

\* 'request' event, channel error
RequestError(B) ==
    \E r \in Requests \ responded, impl \in BOOLEAN, f \in B.faults :
        /\ LET ev == Fault([BaseEvent EXCEPT !.kind = "requestError", !.request = r,
                                             !.tags = <<"internal", "error">>,
                                             !.implementation = impl], f)
               o == onRequestErrorHandler(ev, eventLevel)
           IN Deliver(B, ev, listeners["requestError"], o.thrown,
                      safeHandler("onRequestErrorHandler", o, ev.fatalFails, eventLevel))
        /\ UNCHANGED responded

\* 'request' event, channel internal
RequestInternal(B) ==
    \E r \in Requests \ responded, f \in B.faults :
        /\ LET ev == Fault([BaseEvent EXCEPT !.kind = "requestInternal", !.request = r,
                                             !.tags = <<"internal">>], f)
               o == onRequestInternalHandler(ev, eventLevel)
           IN Deliver(B, ev, listeners["requestInternal"], o.thrown,
                      safeHandler("onRequestInternalHandler", o, ev.fatalFails, eventLevel))
        /\ UNCHANGED responded

\* 'request' event, channel app (request.log)
RequestApp(B) ==
    \E r \in Requests \ responded, t \in B.tagSeqs, f \in B.faults :
        /\ LET ev == Fault([BaseEvent EXCEPT !.kind = "requestApp", !.request = r,
                                             !.tags = t], f)
               o == onRequestAppHandler(ev, nipo.tagLevels, eventLevel)
           IN Deliver(B, ev, listeners["requestApp"], o.thrown,
                      safeHandler("onRequestAppHandler", o, ev.fatalFails, eventLevel))
        /\ UNCHANGED responded

\* 'log' event, channel internal
LogInternal(B) ==
    \E f \in B.faults :
        /\ LET ev == Fault([BaseEvent EXCEPT !.kind = "logInternal",
                                             !.tags = <<"internal">>], f)
               o == onLogInternalHandler(ev, eventLevel)
           IN Deliver(B, ev, listeners["logInternal"], o.thrown,
                      safeHandler("onLogInternalHandler", o, ev.fatalFails, eventLevel))
        /\ UNCHANGED responded

\* 'log' event, channel app (server.log)
LogApp(B) ==
    \E t \in B.tagSeqs, f \in B.faults :
        /\ LET ev == Fault([BaseEvent EXCEPT !.kind = "logApp", !.tags = t], f)
               o == onLogAppHandler(ev, nipo.tagLevels, eventLevel)
           IN Deliver(B, ev, listeners["logApp"], o.thrown,
                      safeHandler("onLogAppHandler", o, ev.fatalFails, eventLevel))
        /\ UNCHANGED responded

\* 'start' and 'stop' events
ServerState(B) ==
    \E state \in {"start", "stop"}, f \in B.faults :
        /\ LET ev == Fault([BaseEvent EXCEPT !.kind = state], f)
               o == onServerState(ev, IF state = "start" THEN "server-started"
                                      ELSE "server-stopped", eventLevel)
           IN Deliver(B, ev, listeners[state], o.thrown,
                      safeHandler("onServerState", o, ev.fatalFails, eventLevel))
        /\ UNCHANGED responded

\* eventLogger.level = l: pino emits 'level-change' on every assignment
SetEventLevel(B) ==
    \E l \in B.eventLevels :
        LET st == onLevelChange(listeners, values[l], eventLevel)
        IN /\ Idle
           /\ eventLevel' = values[l]
           /\ listeners' = st.listeners
           /\ calls' = st.calls
           /\ last' = [BaseEvent EXCEPT !.kind = "level-change", !.prevVal = eventLevel]
           /\ out' = <<>>
           /\ UNCHANGED <<options, responseLevel, responded, log, lk, js, nipo, sz, rt, sv, rr>>

\* responseLogger.level = l: nothing listens to its 'level-change'
SetResponseLevel(B) ==
    \E l \in B.responseLevels :
        /\ Idle
        /\ responseLevel' = values[l]
        /\ last' = [BaseEvent EXCEPT !.kind = "response-level-change",
                                     !.prevVal = responseLevel]
        /\ out' = <<>>
        /\ calls' = <<>>
        /\ UNCHANGED <<options, eventLevel, listeners, responded, log, lk, js, nipo, sz, rt, sv, rr>>

\* the dispatch (or the registration, or the level assignment) returns to its caller
Return ==
    /\ ~Idle
    /\ last' = BaseEvent
    /\ out' = <<>>
    /\ calls' = <<>>
    /\ UNCHANGED <<options, responseLevel, eventLevel, listeners, responded, log, lk, js,
                   nipo, sz, rt, sv, rr>>

Events(B) ==
    \/ Response(B)
    \/ RequestError(B)
    \/ RequestInternal(B)
    \/ RequestApp(B)
    \/ LogInternal(B)
    \/ LogApp(B)
    \/ ServerState(B)
    \/ SetEventLevel(B)
    \/ SetResponseLevel(B)
    \/ Return

Next == Events(General)

Spec == Init /\ [][Next]_vars

-----------------------------------------------------------------------------
\* Specification of the tag level map: tagLevels options that override built-in
\* level names, and events tagged with those names

Overriding == {NoTagLevels, [warn |-> "error", my |-> "debug"],
               [fatal |-> "trace", hello |-> "warn"]}

Tagged ==
    [General EXCEPT !.responses = Responses({200, 500}),
                    !.gates = {"true"},
                    !.faults = {NoFault},
                    !.tagSeqs = {<<>>, <<"warn">>, <<"my", "fatal">>, <<"hello", "app">>}]

InitTags == InitWith([logResponse : {FALSE}, tagLevels : Overriding], Thresholds, {NoLookup})

NextTags == Events(Tagged)

SpecTags == InitTags /\ [][NextTags]_vars

-----------------------------------------------------------------------------
\* Specification with every fault: each step of a handler may throw each kind
\* of value, and eventLogger.fatal may throw as well

Steps == {"gate", "translate", "trace", "props", "write"}

Faulty ==
    [responses |-> Responses({404, 500}),
     gates |-> {"false", "true"},
     faults |-> FaultsOf(Steps, ThrownValues, {FALSE}) \cup FaultsOf(Steps, {"error"}, {TRUE}),
     tagSeqs |-> {<<"app">>},
     eventLevels |-> {"trace", "silent"},
     responseLevels |-> {"info"},
     keep |-> FALSE]

InitFault == InitWith([logResponse : BOOLEAN, tagLevels : {NoTagLevels}], {"trace", "info"},
                      {NoLookup})

NextFault == Events(Faulty)

SpecFault == InitFault /\ [][NextFault]_vars

-----------------------------------------------------------------------------
\* Specification that keeps the whole log, for the order of the records

Ordered ==
    [responses |-> {Responded(200, FALSE), Responded(404, TRUE), Responded(500, TRUE)},
     gates |-> {"true"},
     faults |-> {NoFault},
     tagSeqs |-> {<<"app">>},
     eventLevels |-> {"trace"},
     responseLevels |-> {"info"},
     keep |-> TRUE]

InitOrder == InitWith([logResponse : {FALSE}, tagLevels : {NoTagLevels}], {"trace"},
                      {NoLookup})

NextOrder == Events(Ordered)

SpecOrder == InitOrder /\ [][NextOrder]_vars

-----------------------------------------------------------------------------
\* Specification of direct calls of lookupLevel

LookupTags == {"app", "my", "hello", "info", "trace", "Warn"}

LookupMaps ==
    {[t \in {} |-> 0],
     prepareLevelMap(NoTagLevels),
     prepareLevelMap([my |-> "warn", hello |-> "debug"]),
     prepareLevelMap([info |-> "error", my |-> "trace"])}

Lookups ==
    [tags : SeqsUpTo(LookupTags, MaxTags), defaultLevel : {"info", "debug"},
     map : LookupMaps, result : {""}, done : {FALSE}]

InitLookup == InitWith([logResponse : {FALSE}, tagLevels : {NoTagLevels}], {"info"}, Lookups)

Lookup ==
    /\ ~lk.done
    /\ lk' = [lk EXCEPT !.result = lookupLevel(lk.tags, lk.defaultLevel, lk.map),
                        !.done = TRUE]
    /\ UNCHANGED <<options, responseLevel, eventLevel, listeners, responded, last, calls,
                   out, log, js, nipo, sz, rt, sv, rr>>

NextLookup == Lookup

SpecLookup == InitLookup /\ [][NextLookup]_vars

-----------------------------------------------------------------------------
\* Specifications of direct calls of safeJsonObject

\* the objects and the initial states over the inputs J: the heap holds
\* NumObjects objects
Objects(J) ==
    [kind : J.kinds, slots : UNION {[1..n -> J.values] : n \in J.lens}, toJSON : J.toJSONs]

Jsons(J) ==
    [heap : [1..NumObjects -> Objects(J)], obj : J.roots, again : {J.again},
     first : {NotCalled}, second : {NotCalled}]

Refs == {Ref(o) : o \in 1..NumObjects}

\* safeJsonObject(obj)
Sanitize ==
    /\ js.first = NotCalled
    /\ js' = [js EXCEPT !.first = safeJsonObject(js.heap, js.obj, <<>>, Deepest(js.heap))]
    /\ UNCHANGED <<options, responseLevel, eventLevel, listeners, responded, last, calls,
                   out, log, lk, nipo, sz, rt, sv, rr>>

\* safeJsonObject(safeJsonObject(obj))
Resanitize ==
    /\ js.again
    /\ js.first.status = "returned"
    /\ js.second = NotCalled
    /\ js' = [js EXCEPT !.second = safeJsonObject(js.first.heap, js.first.ret, <<>>,
                                                  Deepest(js.first.heap))]
    /\ UNCHANGED <<options, responseLevel, eventLevel, listeners, responded, last, calls,
                   out, log, lk, nipo, sz, rt, sv, rr>>

\* graphs of arrays and objects holding big integers
Graphs ==
    [kinds |-> {"array", "object"}, lens |-> {0, 1, 2},
     values |-> {BigInt(1000), BigInt(-5)} \cup Refs,
     toJSONs |-> {NoToJSON},
     roots |-> {Ref(1), BigInt(1000), BigInt(-5)},
     again |-> FALSE]

InitJson == InitPlugin([logResponse : {FALSE}, tagLevels : {NoTagLevels}], {"info"},
                       {NoLookup}, Jsons(Graphs))

NextJson == Sanitize

SpecJson == InitJson /\ [][NextJson]_vars

\* graphs of numbers, strings and big integers
Plain ==
    [kinds |-> {"array", "object"}, lens |-> {0, 1, 2},
     values |-> {Number(1), NaN, BigInt(1000)} \cup Refs,
     toJSONs |-> {NoToJSON},
     roots |-> {Ref(1)},
     again |-> FALSE]

InitPlain == InitPlugin([logResponse : {FALSE}, tagLevels : {NoTagLevels}], {"info"},
                        {NoLookup}, Jsons(Plain))

SpecPlain == InitPlain /\ [][NextJson]_vars

\* graphs of arrays and objects holding null, strings, big integers and each
\* other; and the scalars on their own
Shapes ==
    [kinds |-> {"array", "object"}, lens |-> {0, 1, 2},
     values |-> {Null, String("x"), BigInt(7)} \cup Refs,
     toJSONs |-> {NoToJSON},
     roots |-> {Ref(1)},
     again |-> FALSE]

Scalars ==
    {[NoJson EXCEPT !.obj = v] :
        v \in {Undefined, Null, String("x"), String(""), Number(1), NaN, Boolean(FALSE),
               Boolean(TRUE), BigInt(7), BigInt(-5)}}

InitShapes == InitPlugin([logResponse : {FALSE}, tagLevels : {NoTagLevels}], {"info"},
                         {NoLookup}, Jsons(Shapes) \cup Scalars)

SpecShapes == InitShapes /\ [][NextJson]_vars

\* objects with a toJSON method that throws, or returns null, a string or an
\* object
Custom ==
    [kinds |-> {"object"}, lens |-> {0, 1},
     values |-> {BigInt(1000)} \cup Refs,
     toJSONs |-> {NoToJSON, ToJSON("proto", "throws", Undefined)}
                 \cup {ToJSON("proto", "returns", v) : v \in {Null, String("3")} \cup Refs}
                 \cup {ToJSON("own", "returns", v) : v \in Refs},
     roots |-> {Ref(1)},
     again |-> TRUE]

InitCustom == InitPlugin([logResponse : {FALSE}, tagLevels : {NoTagLevels}], {"info"},
                         {NoLookup}, Jsons(Custom))

NextCustom == Sanitize \/ Resanitize

SpecCustom == InitCustom /\ [][NextCustom]_vars

-----------------------------------------------------------------------------
\* Specifications of direct calls of the error serializer

\* the message and the stack of the error at index i
MessageOf(i) == String("e" \o toString(i))
StackOf(i) == String("s" \o toString(i))

ErrRefs == {ErrRef(i) : i \in 1..NumErrors}

\* the errors at index i over the inputs S: an error is given as data only
\* where the serializer takes it for the cause of a rich error
ErrorsAt(S, i) ==
    {e \in {Err(sh.isBoom, sh.plain, sh.name, sh.ctorName, MessageOf(i), c, d, k, st, Number(404)) :
                sh \in S.shapes, c \in S.causes, d \in S.datas, k \in S.codes,
                st \in {Undefined, StackOf(i)}} :
        instanceofError(e.data) => e.isBoom /\ e.cause \in {Undefined, e.data}}

\* the initial states: error 1 is drawn from the inputs S, the others from T
Serials(S, T) ==
    {[errs |-> [i \in 1..NumErrors |-> IF i = 1 THEN r ELSE rest[i]],
      error |-> x, withStack |-> ws, result |-> NotSerialized, ofIndex |-> NotSerialized] :
        r \in ErrorsAt(S, 1),
        rest \in {f \in [2..NumErrors -> UNION {ErrorsAt(T, i) : i \in 2..NumErrors}] :
                    \A i \in 2..NumErrors : f[i] \in ErrorsAt(T, i)},
        x \in S.inputs, ws \in BOOLEAN}

\* serializers.err(error, withStack) of serialize.js
Serialize ==
    /\ sz.result = NotSerialized
    /\ sz' = [sz EXCEPT !.result = errSerializer(sz.errs, sz.error, sz.withStack)]
    /\ UNCHANGED <<options, responseLevel, eventLevel, listeners, responded, last, calls,
                   out, log, lk, js, nipo, rt, sv, rr>>

\* serializers.err(error) of the loggers of index.js, for an error whose data
\* is no error
SerializeOfIndex ==
    /\ sz.ofIndex = NotSerialized
    /\ instanceofError(sz.error) => ~instanceofError(sz.errs[sz.error.n].data)
    /\ sz' = [sz EXCEPT !.ofIndex = errSerializerOfIndex(sz.errs, sz.error)]
    /\ UNCHANGED <<options, responseLevel, eventLevel, listeners, responded, last, calls,
                   out, log, lk, js, nipo, rt, sv, rr>>

GenericShape == [isBoom |-> FALSE, plain |-> FALSE, name |-> "Error", ctorName |-> "Error"]
TypeErrorShape ==
    [isBoom |-> FALSE, plain |-> FALSE, name |-> "TypeError", ctorName |-> "TypeError"]
RangeErrorShape ==
    [isBoom |-> FALSE, plain |-> FALSE, name |-> "RangeError", ctorName |-> "RangeError"]
BoomShape == [isBoom |-> TRUE, plain |-> TRUE, name |-> "Boom", ctorName |-> "Boom"]
NamedBoomShape == [isBoom |-> TRUE, plain |-> TRUE, name |-> "FourOhFour", ctorName |-> "Boom"]
BoomifiedShape ==
    [isBoom |-> TRUE, plain |-> FALSE, name |-> "TypeError", ctorName |-> "TypeError"]
BoomifiedErrorShape ==
    [isBoom |-> TRUE, plain |-> FALSE, name |-> "Error", ctorName |-> "Error"]

\* errors with every kind of cause, for the cause walk
Chains ==
    [shapes |-> {GenericShape, BoomShape},
     causes |-> {Undefined, Null, String("nothing"), Number(5), PlainObject(""), PlainObject("m")}
                \cup ErrRefs,
     datas |-> {Undefined} \cup ErrRefs,
     codes |-> {Undefined},
     inputs |-> {ErrRef(1)}]

InitChains == InitAll([logResponse : {FALSE}, tagLevels : {NoTagLevels}], {"info"},
                      {NoLookup}, {NoJson}, Serials(Chains, Chains), {NoRouting})

NextSerial == Serialize \/ SerializeOfIndex

SpecChains == InitChains /\ [][NextSerial]_vars

\* errors of every shape with data, code and stack, whose causes are plain
\* errors; and values that are no errors
Shaped ==
    [shapes |-> {GenericShape, TypeErrorShape, BoomShape, NamedBoomShape, BoomifiedShape,
                 BoomifiedErrorShape},
     causes |-> {Undefined} \cup (ErrRefs \ {ErrRef(1)}),
     datas |-> {Undefined, Null, Number(0), BigInt(1000)} \cup (ErrRefs \ {ErrRef(1)}),
     codes |-> {Undefined, String("ERR_INVALID_ARG_TYPE")},
     inputs |-> {ErrRef(1), Undefined, Null, String("x"), Number(5), PlainObject("hello")}]

Causes ==
    [shapes |-> {GenericShape, TypeErrorShape, RangeErrorShape},
     causes |-> {Undefined},
     datas |-> {Undefined},
     codes |-> {Undefined},
     inputs |-> {}]

InitRecords == InitAll([logResponse : {FALSE}, tagLevels : {NoTagLevels}], {"info"},
                       {NoLookup}, {NoJson}, Serials(Shaped, Causes), {NoRouting})

SpecRecords == InitRecords /\ [][NextSerial]_vars

-----------------------------------------------------------------------------
\* Routes with property maps

\* server.route(...) with the given plugin settings; nothing is validated here
Route(B) ==
    /\ rt.phase = "setup"
    /\ Len(rt.routes) < NumRoutes
    /\ \E settings \in B.settings :
        rt' = [rt EXCEPT !.routes = Append(@, settings)]
    /\ UNCHANGED <<options, responseLevel, eventLevel, listeners, responded, last, calls,
                   out, log, lk, js, nipo, sz, sv, rr>>

\* server.initialize(): the onPreStart extension runs, and its error rejects
Initialize ==
    /\ rt.phase = "setup"
    /\ LET r == onPreStart(rt.routes, 1)
       IN  rt' = [rt EXCEPT !.phase = IF r.threw THEN "failed" ELSE "initialized",
                            !.routes = r.routes]
    /\ UNCHANGED <<options, responseLevel, eventLevel, listeners, responded, last, calls,
                   out, log, lk, js, nipo, sz, sv, rr>>

\* server.inject(...) of a request that a route matches, before or after
\* server.initialize(): the response event reaches the guarded handler
Inject(B) ==
    /\ rt.phase \in {"setup", "initialized"}
    /\ \E route \in 1..Len(rt.routes), request \in B.requests :
        rt' = [rt EXCEPT !.line = translate(route, rt.routes[route], request)]
    /\ UNCHANGED <<options, responseLevel, eventLevel, listeners, responded, last, calls,
                   out, log, lk, js, nipo, sz, sv, rr>>

\* values a request may hold at a path
UserValues ==
    {Undefined, Null, Number(0), Boolean(FALSE), String(""), String("1234"), BigInt(1000)}

\* the route settings of the tests, settings that override a default of res and
\* name a path that never resolves, and the two invalid shapes; a header is a
\* string or missing
Routed ==
    [settings |->
        {NoSettings,
         Settings(TRUE, PropsObject(<<<<"clientIp", ArrayPath(<<"headers", "x-real-ip">>)>>>>),
                  NoProps, FALSE),
         Settings(TRUE, PropsObject(<<<<"clientIp", StringPath(<<"headers", "x-real-ip">>)>>>>),
                  PropsObject(<<<<"n", StringPath(<<"query", "n">>)>>>>), FALSE),
         Settings(TRUE, NoProps,
                  PropsObject(<<<<"statusCode", ArrayPath(<<"query", "n">>)>>,
                                <<"none", StringPath(<<"query", "none">>)>>>>), FALSE),
         Settings(TRUE, PropsObject(<<<<"test", OtherPath>>>>), NoProps, FALSE),
         Settings(TRUE, NoProps, NoProps, TRUE)},
     requests |-> {r \in [Resolvable -> UserValues] :
                      r[<<"headers", "x-real-ip">>] \in {Undefined, String(""), String("1234")}}]

InitRoutes == InitAll([logResponse : {FALSE}, tagLevels : {NoTagLevels}], {"info"},
                      {NoLookup}, {NoJson}, {NoSerial}, {NoRouting})

NextRoutes == Route(Routed) \/ Initialize \/ Inject(Routed)

SpecRoutes == InitRoutes /\ [][NextRoutes]_vars

-----------------------------------------------------------------------------
\* Several servers

\* server.register(Nipo, { pino: { level } }) on one more server:
\* internals.handlers is replaced, then onLevelChange is called once
RegisterOn(B) ==
    \E server \in Servers \ sv.registered, l \in B.eventLevels :
        /\ sv' = [sv EXCEPT !.registered = @ \cup {server},
                            !.handlers = server,
                            !.level[server] = values[l],
                            !.events[server] =
                                onLevelChangeWith(NoListeners, values[l], NoPrev, server),
                            !.emitted = NoServers.emitted]
        /\ UNCHANGED <<options, responseLevel, eventLevel, listeners, responded, last, calls,
                       out, log, lk, js, nipo, sz, rt, rr>>

\* server.plugins.nipo.eventLogger.level = l on a server that has the plugin
SetLevelOn(B) ==
    \E server \in sv.registered, l \in B.eventLevels :
        /\ sv' = [sv EXCEPT !.level[server] = values[l],
                            !.events[server] =
                                onLevelChangeWith(@, values[l], sv.level[server], sv.handlers),
                            !.emitted = NoServers.emitted]
        /\ UNCHANGED <<options, responseLevel, eventLevel, listeners, responded, last, calls,
                       out, log, lk, js, nipo, sz, rt, rr>>

\* a log or request event of a server, on the internal or the app channel:
\* every listener writes one record to the event logger it is bound to
EmitOn ==
    \E server \in sv.registered, handler \in Dynamic :
        /\ sv' = [sv EXCEPT !.emitted =
                                Emitted(server, handler, sv.events[server][handler])]
        /\ UNCHANGED <<options, responseLevel, eventLevel, listeners, responded, last, calls,
                       out, log, lk, js, nipo, sz, rt, rr>>

Several == [eventLevels |-> {"debug", "info", "silent"}]

InitServers == InitAll([logResponse : {FALSE}, tagLevels : {NoTagLevels}], {"info"},
                       {NoLookup}, {NoJson}, {NoSerial}, {NoRouting})

NextServers == RegisterOn(Several) \/ SetLevelOn(Several) \/ EmitOn

SpecServers == InitServers /\ [][NextServers]_vars

-----------------------------------------------------------------------------
\* Response lines

\* the response handler builds route and res for a response; the route's res
\* properties are applied to res
Build(B) ==
    /\ ~rr.done
    /\ \E request \in B.requests, response \in B.responses, now \in B.nows :
        LET res == applyUserProps(request.context, resOf(response, request.info, now),
                                  request.settings.res)
        IN  rr' = Built(TRUE, request, response, routeOf(request), res.obj)
    /\ UNCHANGED <<options, responseLevel, eventLevel, listeners, responded, last, calls,
                   out, log, lk, js, nipo, sz, rt, sv>>

\* requests that were routed or not (a request that was never routed has the
\* settings of the server's notFound route), with a res property map or none;
\* responses with and without an error, whose data may be present or not
Lines ==
    [requests |->
        [params : {Null, String("{}")},
         route : {[id |-> String("r1"), vhost |-> Undefined, path |-> String("/"),
                   realm |-> Undefined]},
         info : [received : {2}, responded : {0, 5}, completed : {0, 7}],
         context : {[p \in Resolvable |-> String("1234")]},
         settings : {NoSettings,
                     Settings(TRUE, NoProps,
                              PropsMap(<<<<"ip", ArrayPath(<<"headers", "x-real-ip">>)>>>>),
                              FALSE)}],
     responses |->
        [statusCode : {200, 418, 500},
         error : {NoError}
                 \cup {ErrorOf(t, m, d) :
                          t \in {"Boom", "Error"}, m \in {"I'm a teapot", ""},
                          d \in {Undefined, Null, Number(0), String(""), String("china"),
                                 BigInt(1)}}],
     nows |-> {9}]

InitLines == InitAll([logResponse : {FALSE}, tagLevels : {NoTagLevels}], {"info"},
                     {NoLookup}, {NoJson}, {NoSerial}, {NoRouting})

NextLines == Build(Lines)

SpecLines == InitLines /\ [][NextLines]_vars

-----------------------------------------------------------------------------
\* Properties

\* the positions of out holding a record of the given logger / message
OutOf(logger) == {i \in DOMAIN out : out[i].logger = logger}
OutMsg(msg) == {i \in DOMAIN out : out[i].msg = msg}

\* the last event ran its handler once
Ran(kind) == last.kind = kind /\ last.delivered = 1

\* the message of the record a handler builds
OwnMsg(kind) ==
    CASE kind = "response" -> {"request-response", "request-aborted"}
      [] kind = "requestError" -> {"request-error"}
      [] kind = "requestInternal" -> {"request-internal"}
      [] kind = "requestApp" -> {"request-app"}
      [] kind = "logInternal" -> {"log-internal"}
      [] kind = "logApp" -> {"log-app"}
      [] kind = "start" -> {"server-started"}
      [] kind = "stop" -> {"server-stopped"}
      [] OTHER -> {}

\* C1: no exception leaves a guarded handler, whatever is thrown inside it and
\* even when the fatal write of the guard fails.
C1_NothingPropagates == ~last.propagated

\* C2: a handler that fails while translating an event leaves exactly one
\* record for the fault, the fatal 'nipo-error' record on the event logger with
\* the fields server, type, message and stack, and the record the handler was
\* building is not written.
C2_OneFatalRecord ==
    (last.delivered = 1 /\ last.caught # "none") =>
        /\ Cardinality(OutMsg("nipo-error")) = 1
        /\ \A i \in OutMsg("nipo-error") :
            /\ i = Len(out)
            /\ out[i].logger = "event"
            /\ out[i].level = "fatal"
            /\ out[i].fields = {"server", "type", "message", "stack"}
        /\ \A i \in DOMAIN out : out[i].msg \notin OwnMsg(last.kind)

\* the subscriptions a group of handlers has when its reference level is ref
Subscribed(ref, handlers) ==
    \A h \in handlers : listeners[h] = IF values[ref] >= eventLevel THEN 1 ELSE 0

\* the calls a level change from prevVal issues for a group: none unless the
\* group's active boolean flipped, else one call per handler
GroupCalls(ref, handlers, prevVal) ==
    LET isActive == values[ref] >= eventLevel
        wasActive == prevVal # NoPrev /\ values[ref] >= prevVal
        mine == {i \in DOMAIN calls : calls[i].handler \in handlers}
    IN IF isActive = wasActive THEN mine = {}
       ELSE /\ \A h \in handlers :
                 Cardinality({i \in mine : calls[i].handler = h}) = 1
            /\ \A i \in mine :
                 calls[i].method = IF isActive THEN "on" ELSE "removeListener"

\* the tags of the last event name no level
Untagged == \A i \in DOMAIN last.tags :
                last.tags[i] \notin DOMAIN prepareLevelMap(options.tagLevels)

\* C3: after registration and after every threshold change of the event
\* logger, the internal handlers are subscribed exactly once iff debug >= the
\* threshold and the app handlers exactly once iff info >= the threshold;
\* on / removeListener are called only for a group whose active boolean
\* flipped; a server app event without a level tag is recorded iff the
\* threshold is at most info.
C3_Subscriptions ==
    /\ Subscribed("debug", {"requestInternal", "logInternal"})
    /\ Subscribed("info", {"requestApp", "logApp"})
    /\ last.kind \in {"register", "level-change"} =>
        /\ GroupCalls("debug", {"requestInternal", "logInternal"}, last.prevVal)
        /\ GroupCalls("info", {"requestApp", "logApp"}, last.prevVal)
        /\ \A i \in DOMAIN calls :
             calls[i].handler \in {"requestInternal", "logInternal", "requestApp", "logApp"}
    /\ last.kind \notin {"register", "level-change"} => calls = <<>>
    /\ (last.kind = "logApp" /\ Untagged /\ last.failAt = "none") =>
        /\ (eventLevel <= values["info"]) <=>
               (\E i \in DOMAIN out : out[i].msg = "log-app" /\ out[i].visible)
        /\ Len(out) <= 1

\* C3 witness: verbosity raised back from silent to info re-subscribes the app
\* handlers, once each, and leaves the internal handlers off.
C3_Witness ==
    /\ last.kind = "level-change"
    /\ last.prevVal = Infinity
    /\ eventLevel = values["info"]
    /\ listeners["logApp"] = 1
    /\ listeners["logInternal"] = 0
    /\ Len(calls) = 2

\* C4: every request or server app event whose tags resolve to a level at or
\* above the event logger's threshold is translated and recorded once, at
\* that level.
C4_VisibleAppEventRecorded ==
    LET level == lookupLevel(last.tags, "info", prepareLevelMap(options.tagLevels))
    IN (last.kind \in {"requestApp", "logApp"} /\ last.failAt = "none"
            /\ values[level] >= eventLevel) =>
        /\ Len(out) = 1
        /\ out[1].level = level
        /\ out[1].visible

\* the tags of T that are keys of M
Matched(T, M) == {T[i] : i \in DOMAIN T} \cap DOMAIN M

MaxOf(S) == CHOOSE x \in S : \A y \in S : y <= x

\* C5: lookupLevel(T, d, M) is the name of the highest level M gives to a tag
\* of T, and d when no tag of T is a key of M.
C5_LookupIsMax ==
    lk.done =>
        lk.result = IF Matched(lk.tags, lk.map) = {} THEN lk.defaultLevel
                    ELSE labels(MaxOf({lk.map[t] : t \in Matched(lk.tags, lk.map)}))

\* C5 witness: a 'trace' tag wins over the default info, next to a tag that
\* differs from a level name by case only.
C5_Witness ==
    /\ lk.done
    /\ lk.tags = <<"Warn", "trace", "app">>
    /\ lk.defaultLevel = "info"
    /\ lk.result = "trace"

\* the level the status code stands for
StatusClass(statusCode) ==
    CASE statusCode >= 200 /\ statusCode < 400 -> "info"
      [] statusCode >= 400 /\ statusCode < 500 -> "warn"
      [] statusCode >= 500 -> "error"

\* out holds one response line, at the given level, visible iff the response
\* logger's threshold lets that level through; it is the last record
OneResponseLine(level) ==
    /\ Cardinality(OutOf("response")) = 1
    /\ \A i \in OutOf("response") :
        /\ i = Len(out)
        /\ out[i].msg = "request-response"
        /\ out[i].level = level
        /\ out[i].request = last.request
        /\ out[i].visible <=> (values[level] >= responseLevel)

\* C6: with a response and a gate that forces no level (none, or a truthy
\* non-string result), the response line is written at info for 200..399, at
\* warn for 400..499 and at error from 500 on.
C6_StatusLevel ==
    (Ran("response") /\ last.response /\ last.gate \in {"none", "true"}
        /\ last.caught = "none") =>
        OneResponseLine(StatusClass(last.statusCode))

\* C6 witness: a 499 passed by the gate is written at warn.
C6_Witness ==
    /\ Ran("response") /\ last.gate = "true" /\ last.statusCode = 499
    /\ last.caught = "none"
    /\ Len(out) = 1 /\ out[1].level = "warn" /\ out[1].msg = "request-response"

\* C7: when the gate returns a falsy value for a request with a response,
\* nothing is written to the response logger.
C7_GateSuppresses ==
    (last.kind = "response" /\ last.response /\ last.gate = "false") =>
        OutOf("response") = {}

\* C7 witness: a suppressed 404 whose error is still traced on the event logger.
C7_Witness ==
    /\ Ran("response") /\ last.gate = "false" /\ last.statusCode = 400 /\ last.error
    /\ responseLevel = values["trace"]
    /\ Len(out) = 1 /\ out[1].logger = "event"

\* the event the last handler was given
LastEvent == [last EXCEPT !.delivered = 0, !.caught = "none", !.propagated = FALSE]

\* C8: a level name returned by the gate is the level of the response line,
\* whatever the status; true gives the records that no gate gives.
C8_GateLevel ==
    (Ran("response") /\ last.response /\ last.caught = "none") =>
        /\ last.gate \in LevelNames => OneResponseLine(last.gate)
        /\ last.gate = "true" =>
             out = onResponseHandler(FALSE, [LastEvent EXCEPT !.gate = "none"],
                                     eventLevel, responseLevel).recs

\* C8 witness: the gate forces debug on a 500.
C8_Witness ==
    /\ Ran("response") /\ last.gate = "debug" /\ last.statusCode = 500
    /\ last.caught = "none"
    /\ Len(out) = 1 /\ out[1].level = "debug" /\ out[1].logger = "response"

RequestMsgs == {"request-error", "request-app", "request-internal"}

\* C9: every request-error, request-app, request-internal and trace record of
\* a request is written before the request-response record of that request.
C9_ResponseLast ==
    \A i, j \in DOMAIN log :
        (i < j /\ log[i].msg = "request-response" /\ log[j].request = log[i].request) =>
            log[j].msg \notin RequestMsgs

\* C9 witness: with two requests in flight, the fatal request-error record of
\* one is followed by its trace-less error level response line, and a 404 of
\* the other is traced before its response line.
C9_Witness ==
    /\ Len(log) >= 2
    /\ \E i \in DOMAIN log : i < Len(log)
        /\ log[i].msg = "request-internal" /\ log[i].level = "trace"
        /\ log[i + 1].msg = "request-response" /\ log[i + 1].request = log[i].request
    /\ \E i, j \in DOMAIN log : i < j
        /\ log[i].msg = "request-error" /\ log[i].level = "fatal"
        /\ log[j].msg = "request-response" /\ log[j].level = "error"
        /\ log[j].request = log[i].request

\* the handler got to the trace check and through it
ReachedTraceCheck ==
    ~(last.caught # "none" /\ last.failAt \in {"gate", "translate", "trace"})

\* the trace records of out are exactly n, each with the shape of the
\* response-associated trace record
TraceRecords(n) ==
    /\ Cardinality(OutMsg("request-internal")) = n
    /\ \A i \in OutMsg("request-internal") :
        /\ out[i].logger = "event"
        /\ out[i].level = "trace"
        /\ out[i].fields = {"request", "tags", "err"}
        /\ out[i].request = last.request

\* C10 as stated: the trace record is written iff the response carries an
\* internal error, its status is not 5xx and trace is enabled.
C10_TraceUnless5xx ==
    (Ran("response") /\ last.response /\ ReachedTraceCheck) =>
        TraceRecords(IF last.error /\ last.statusCode < 500
                        /\ isLevelEnabled(eventLevel, "trace") THEN 1 ELSE 0)

\* C10 amended: the trace record is written iff the response carries an
\* internal error, its status is not 500 and trace is enabled.
C10_TraceUnless500 ==
    (Ran("response") /\ last.response /\ ReachedTraceCheck) =>
        TraceRecords(IF last.error /\ last.statusCode # 500
                        /\ isLevelEnabled(eventLevel, "trace") THEN 1 ELSE 0)

\* C10 witness: the error of a 503 is traced.
C10_Witness ==
    /\ Ran("response") /\ last.statusCode = 503 /\ last.error
    /\ eventLevel = values["trace"]
    /\ \E i \in DOMAIN out : out[i].msg = "request-internal" /\ out[i].level = "trace"

\* the response-associated trace records among recs
TraceOf(recs) ==
    SelectSeq(recs, LAMBDA r : r.msg = "request-internal" /\ r.level = "trace")

\* the event the last handler was given, without gate and without fault
Ungated ==
    [LastEvent EXCEPT !.gate = "none", !.failAt = "none", !.thrown = "none",
                      !.fatalFails = FALSE]

\* C11: for a completed response the trace check of the associated error is
\* made once, and what it writes is what the handler writes when no gate is
\* configured: the gate's result (suppress, pass, forced level) changes nothing.
C11_TraceIndependentOfGate ==
    (Ran("response") /\ last.response /\ ReachedTraceCheck) =>
        /\ Len(TraceOf(out)) <= 1
        /\ TraceOf(out) = TraceOf(onResponseHandler(FALSE, Ungated, eventLevel,
                                                    responseLevel).recs)

\* C11 witness: the error of a suppressed 499 is traced, and nothing else is
\* written.
C11_Witness ==
    /\ Ran("response") /\ options.logResponse /\ last.gate = "false"
    /\ last.statusCode = 499 /\ last.error
    /\ Len(out) = 1 /\ Len(TraceOf(out)) = 1

\* C12: a request error event leaves one 'request-error' record on the event
\* logger with the fields request, tags and err, at level fatal when the
\* implementation flag is set and at level error otherwise; its handler is
\* subscribed at every threshold.
C12_RequestError ==
    /\ listeners["requestError"] = 1
    /\ (last.kind = "requestError" /\ last.caught = "none") =>
        /\ last.delivered = 1
        /\ Len(out) = 1
        /\ out[1].logger = "event"
        /\ out[1].msg = "request-error"
        /\ out[1].fields = {"request", "tags", "err"}
        /\ out[1].request = last.request
        /\ out[1].level = IF last.implementation THEN "fatal" ELSE "error"
        /\ out[1].visible <=> (values[out[1].level] >= eventLevel)

\* C12 witness: an implementation error is recorded at level fatal while the
\* threshold is fatal, where the internal and the app handlers are off.
C12_Witness ==
    /\ Ran("requestError") /\ last.implementation
    /\ eventLevel = values["fatal"]
    /\ listeners["requestApp"] = 0 /\ listeners["requestInternal"] = 0
    /\ Len(out) = 1 /\ out[1].level = "fatal" /\ out[1].visible

\* the messages of the records of the response logger
ResponseMsgs == {"request-response", "request-aborted"}

\* the messages of the records of the event logger
EventMsgs == {"server-started", "server-stopped", "request-error", "request-internal",
              "request-app", "log-internal", "log-app", "nipo-error"}

\* C13: request-response and request-aborted records are written to the
\* response logger only, every other record to the event logger only.
C13_Routing ==
    \A i \in DOMAIN out :
        /\ out[i].msg \in ResponseMsgs \cup EventMsgs
        /\ out[i].msg \in ResponseMsgs <=> out[i].logger = "response"
        /\ out[i].msg \in EventMsgs <=> out[i].logger = "event"

\* C13 witness: one response leaves a trace record on the event logger and its
\* line on the response logger.
C13_Witness ==
    /\ Ran("response") /\ Len(out) = 2
    /\ out[1].msg = "request-internal" /\ out[1].logger = "event"
    /\ out[2].msg = "request-response" /\ out[2].logger = "response"

\* the name safeHandler was given for the handler of an event
HandlerOf(kind) ==
    CASE kind = "response" -> "onResponseHandler"
      [] kind = "requestError" -> "onRequestErrorHandler"
      [] kind = "requestInternal" -> "onRequestInternalHandler"
      [] kind = "requestApp" -> "onRequestAppHandler"
      [] kind = "logInternal" -> "onLogInternalHandler"
      [] kind = "logApp" -> "onLogAppHandler"
      [] kind \in {"start", "stop"} -> "onServerState"

\* thrown values that are no error objects
NonErrors == ThrownValues \ {"error"}

\* C14: when a handler throws a value that is no error object, the fatal
\* record's message is 'Unknown throw during: ' followed by the handler's name.
C14_UnknownThrowMessage ==
    (last.delivered = 1 /\ last.caught \in NonErrors) =>
        \E i \in OutMsg("nipo-error") :
            out[i].message = "Unknown throw during: " \o HandlerOf(last.kind)

\* a position that does not exist
Missing == Val("missing", 0, "")

\* the positions of a value graph, as sequences of slot numbers from the
\* value: a reference to a composite that is above its own position is a leaf
RECURSIVE Paths(_, _, _)
Paths(heap, value, anc) ==
    IF value.t = "object" /\ value.n \notin anc
    THEN {<<>>} \cup UNION {{<<i>> \o q : q \in Paths(heap, heap[value.n].slots[i],
                                                      anc \cup {value.n})} :
                            i \in DOMAIN heap[value.n].slots}
    ELSE {<<>>}

\* the value at position p
RECURSIVE At(_, _, _)
At(heap, value, p) ==
    IF p = <<>> THEN value
    ELSE IF value.t # "object" \/ value.n \notin DOMAIN heap THEN Missing
    ELSE IF Head(p) \notin DOMAIN heap[value.n].slots THEN Missing
    ELSE At(heap, heap[value.n].slots[Head(p)], Tail(p))

\* the composites above position p
RECURSIVE Above(_, _, _)
Above(heap, value, p) ==
    IF p = <<>> \/ value.t # "object" THEN {}
    ELSE {value.n} \cup Above(heap, heap[value.n].slots[Head(p)], Tail(p))

\* no composite of the graph is referenced from below itself
Acyclic(heap, value) ==
    \A p \in Paths(heap, value, {}) :
        At(heap, value, p).t = "object" => At(heap, value, p).n \notin Above(heap, value, p)

\* the first call, its argument and its result by position
Called == js.first # NotCalled
Positions == Paths(js.heap, js.obj, {})
In(p) == At(js.heap, js.obj, p)
Res(p) == At(js.first.heap, js.first.ret, p)
Composite(p) == In(p).t = "object"
Again(p) == Composite(p) /\ In(p).n \in Above(js.heap, js.obj, p)

\* C15: safeJsonObject returns for every graph, cyclic ones included; where a
\* composite is referenced from below itself the result holds '[Circular]',
\* and the result has no cycle.
C15_CyclesCut ==
    Called =>
        /\ js.first.status = "returned"
        /\ \A p \in Positions : Again(p) => Res(p) = String("[Circular]")
        /\ Acyclic(js.first.heap, js.first.ret)

\* C15 witness: an indirect cycle, the root referenced from its child, and a
\* direct one, are both cut.
C15_Witness ==
    /\ Called /\ js.obj = Ref(1)
    /\ In(<<1>>) = Ref(2) /\ In(<<1, 1>>) = Ref(1) /\ In(<<1, 2>>) = Ref(2)
    /\ Res(<<1, 1>>) = String("[Circular]") /\ Res(<<1, 2>>) = String("[Circular]")

\* C16: safeJsonObject never throws, whatever a toJSON method does.
C16_NeverThrows == js.first.status # "thrown" /\ js.second.status # "thrown"

\* a and b are equal values, composites being compared by kind and content
RECURSIVE DeepEq(_, _, _, _)
DeepEq(heap, a, b, depth) ==
    IF a.t = "object" /\ b.t = "object"
    THEN \/ a.n = b.n
         \/ /\ depth > 0
            /\ heap[a.n].kind = heap[b.n].kind
            /\ Len(heap[a.n].slots) = Len(heap[b.n].slots)
            /\ \A i \in DOMAIN heap[a.n].slots :
                DeepEq(heap, heap[a.n].slots[i], heap[b.n].slots[i], depth - 1)
    ELSE a = b

\* C17: sanitizing a sanitized value gives a structurally equal value.
C17_Idempotent ==
    js.second.status = "returned" =>
        DeepEq(js.second.heap, js.first.ret, js.second.ret, Len(js.second.heap))

\* a value that sanitization leaves as it is, at a position below anc
RECURSIVE Clean(_, _, _)
Clean(heap, value, anc) ==
    IF value.t = "object"
    THEN /\ value.n \notin anc
         /\ \A i \in DOMAIN heap[value.n].slots :
                Clean(heap, heap[value.n].slots[i], anc \cup {value.n})
    ELSE value.t # "bigint"

\* C18: the objects of the input are left as they were; a container with no
\* changed value below it is returned as the same reference, a container with
\* a changed value below it as a fresh copy.
C18_CopyOnWrite ==
    js.first.status = "returned" =>
        /\ \A o \in DOMAIN js.heap : js.first.heap[o] = js.heap[o]
        /\ \A p \in Positions :
            (Composite(p) /\ ~Again(p)) =>
                IF Clean(js.heap, In(p), Above(js.heap, js.obj, p))
                THEN Res(p) = In(p)
                ELSE Res(p).t = "object" /\ Res(p).n \notin DOMAIN js.heap

\* C19: a composite that is not referenced from below itself stays a composite
\* of its kind and size at every occurrence, and the stack is empty when the
\* call returns.
C19_PerPath ==
    Called =>
        /\ js.first.stack = <<>>
        /\ \A p \in Positions :
            (Composite(p) /\ ~Again(p)) =>
                /\ Res(p).t = "object"
                /\ js.first.heap[Res(p).n].kind = js.heap[In(p).n].kind
                /\ Len(js.first.heap[Res(p).n].slots) = Len(js.heap[In(p).n].slots)

\* C19 witness: an array holds the same object twice, and both occurrences
\* are sanitized to objects holding '1000n'.
C19_Witness ==
    /\ Called /\ js.obj = Ref(1) /\ js.heap[1].kind = "array"
    /\ In(<<1>>) = Ref(2) /\ In(<<2>>) = Ref(2) /\ In(<<1, 1>>) = BigInt(1000)
    /\ Res(<<1, 1>>) = String("1000n") /\ Res(<<2, 1>>) = String("1000n")

\* the decimal digits of the big integers of the inputs, followed by n
Decimal(n) == CASE n = 1000 -> "1000n" [] n = -5 -> "-5n"

\* C20: a big integer, at the top or at any depth, is replaced by the string
\* of its decimal digits followed by n.
C20_BigIntDigits ==
    Called => \A p \in Positions : In(p).t = "bigint" => Res(p) = String(Decimal(In(p).n))

\* C20 witness: a negative big integer two levels down, next to 1000.
C20_Witness ==
    /\ Called /\ js.obj = Ref(1)
    /\ In(<<1, 1>>) = BigInt(-5) /\ In(<<2>>) = BigInt(1000)
    /\ Res(<<1, 1>>) = String("-5n") /\ Res(<<2>>) = String("1000n")

\* the serializer of serialize.js was called, on an error
Serialized1 == sz.result # NotSerialized
OnError == Serialized1 /\ instanceofError(sz.error)
Root == sz.errs[sz.error.n]

\* the cause of the error at index i: its explicit cause, or for a rich error
\* without one its data when that is an error
CauseOf(errs, i) ==
    IF errs[i].cause # Undefined THEN errs[i].cause
    ELSE IF errs[i].isBoom /\ instanceofError(errs[i].data) THEN errs[i].data
    ELSE Undefined

\* the causes of the error at index i in chain order, up to and including the
\* first cause that is no error or an error met before
RECURSIVE CauseChain(_, _, _)
CauseChain(errs, i, met) ==
    LET c == CauseOf(errs, i)
    IN IF c = Undefined THEN <<>>
       ELSE IF ~instanceofError(c) \/ c.n \in met THEN <<c>>
       ELSE <<c>> \o CauseChain(errs, c.n, met \cup {c.n})

Chain == CauseChain(sz.errs, sz.error.n, {sz.error.n})

\* the chain comes back to an error it has visited
Cyclic ==
    /\ Chain # <<>>
    /\ instanceofError(Chain[Len(Chain)])
    /\ \/ Chain[Len(Chain)] = sz.error
       \/ \E j \in 1..(Len(Chain) - 1) : Chain[j] = Chain[Len(Chain)]

\* the causes visited: all of an open chain, all but the last of a cyclic one
Visited == IF Cyclic THEN SubSeq(Chain, 1, Len(Chain) - 1) ELSE Chain

\* the message of an error cause, the string coercion of any other cause
Segment(c) ==
    CASE c.t = "error" -> sz.errs[c.n].message.s
      [] c.t = "null" -> "null"
      [] c.t = "string" -> c.s
      [] c.t = "number" /\ c.n = 5 -> "5"
      [] c.t = "plain" -> "[object Object]"

RECURSIVE Joined(_, _)
Joined(chain, i) ==
    IF i > Len(chain) THEN "" ELSE ": " \o Segment(chain[i]) \o Joined(chain, i + 1)

\* what the causes add to the stack of a root with a string stack
RECURSIVE Traces(_, _)
Traces(chain, i) ==
    IF i > Len(chain) THEN ""
    ELSE (IF instanceofError(chain[i])
          THEN "\ncaused by: " \o (IF sz.errs[chain[i].n].stack = Undefined THEN "<unknown>"
                                   ELSE sz.errs[chain[i].n].stack.s)
          ELSE "") \o Traces(chain, i + 1)

\* stacks are included and the root has one
Tracing == sz.withStack /\ Root.stack.t = "string"

\* C21: for a chain of k causes without a cycle the message is the k+1
\* messages joined by ': ', a cause that is no error giving its string
\* coercion as the last segment.
C21_ChainMessage ==
    (OnError /\ ~Cyclic) =>
        /\ sz.result.status = "returned"
        /\ sz.result.rec.message = Root.message.s \o Joined(Chain, 1)

\* no error is listed twice
Once(seen) == \A i, j \in DOMAIN seen : seen[i] = seen[j] => i = j

C23_SerializerNeverThrows == sz.result.status # "thrown"

\* C24: the record has the key data only for data that is not null or
\* undefined (nor, for a rich error, the cause), and the key stack only when
\* the error has a stack and stacks are included; neither key is present with
\* a null or undefined value; a rich error without code has its status code
\* as code.
C24_RecordKeys ==
    (OnError /\ sz.result.status = "returned") =>
        LET rec == sz.result.rec
        IN /\ "data" \in rec.keys <=>
                (~Nullish(Root.data) /\ ~(Root.isBoom /\ Root.data = CauseOf(sz.errs, sz.error.n)))
           /\ "stack" \in rec.keys <=> (~Nullish(Root.stack) /\ sz.withStack)
           /\ "data" \in rec.keys => ~Nullish(rec.data)
           /\ "stack" \in rec.keys => ~Nullish(rec.stack)
           /\ (Root.isBoom /\ Root.code = Undefined) => rec.code = Root.statusCode

\* C25: unless stacks are included and the root has a string stack, the stack
\* of the record is that of the root as it is, whatever stacks the causes
\* have, and without includeStack the record has no stack key; otherwise each
\* error cause adds '\ncaused by: ' and its stack or '<unknown>', and a cause
\* that is no error adds nothing.
C25_StackText ==
    (OnError /\ sz.result.status = "returned") =>
        LET rec == sz.result.rec
        IN /\ "stack" \in rec.keys <=> sz.withStack
           /\ rec.stack =
                IF Tracing
                THEN String(Root.stack.s \o Traces(Visited, 1)
                            \o (IF Cyclic THEN "\ncauses have become circular..." ELSE ""))
                ELSE IF sz.withStack THEN Root.stack
                ELSE Undefined

\* C25 witness: stacks are asked for, the root has none and its cause has one;
\* the chain is circular.
C25_Witness ==
    /\ OnError /\ sz.withStack /\ Root.stack = Undefined
    /\ Root.cause = ErrRef(2) /\ sz.errs[2].stack = String("s2") /\ sz.errs[2].cause = ErrRef(2)
    /\ sz.result.status = "returned"
    /\ sz.result.rec.stack = Undefined
    /\ sz.result.rec.message = "e1: e2: ..."

\* the explicit cause of the root is an error with a name of its own
NamedCause == instanceofError(Root.cause) /\ sz.errs[Root.cause.n].name # "Error"

C27_PassThrough ==
    /\ Serialized1 =>
        /\ sz.result.errs = sz.errs
        /\ ~instanceofError(sz.error) => sz.result.status = "returned" /\ sz.result.same
        /\ instanceofError(sz.error) => ~sz.result.same
    /\ sz.ofIndex # NotSerialized =>
        /\ sz.ofIndex.errs = sz.errs
        /\ ~instanceofError(sz.error) => sz.ofIndex.same

\* C27 witness: both serializers were given an object that is no error.
C27_Witness ==
    /\ sz.error = PlainObject("hello")
    /\ sz.result.status = "returned" /\ sz.result.same
    /\ sz.ofIndex.status = "returned" /\ sz.ofIndex.same

\* the sanitized form of a value that is no object
Plainly(value) ==
    IF value.t = "bigint" THEN String(toString(value.n) \o "n") ELSE value

\* entry i of a property map of the translated request is in the output
\* object as claimed, over the given defaults
Entered(map, i, output, defaults) ==
    LET prop == map.entries[i][1]
        value == reach(rt.line.request, map.entries[i][2])
    IN  IF value # Undefined /\ value # Null
        THEN prop \in DOMAIN output /\ output[prop] = Plainly(value)
        ELSE IF prop \in DOMAIN defaults
        THEN prop \in DOMAIN output /\ output[prop] = defaults[prop]
        ELSE prop \notin DOMAIN output

EnteredAll(map, output, defaults) ==
    /\ map.kind = "map" => \A i \in 1..Len(map.entries) : Entered(map, i, output, defaults)
    /\ \A f \in DOMAIN defaults : f \in DOMAIN output
    /\ \A f \in DOMAIN output :
        \/ f \in DOMAIN defaults /\ output[f] = defaults[f]
        \/ map.kind = "map" /\ \E i \in 1..Len(map.entries) : map.entries[i][1] = f

\* a response was translated for a route whose settings onPreStart has
\* validated (its property maps are Maps), or that has no settings
Translated ==
    /\ rt.line.msg # ""
    /\ rt.line.settings.req.kind # "object"
    /\ rt.line.settings.res.kind # "object"

InvalidPaths(map) == \E i \in 1..Len(map.entries) : map.entries[i][2].kind = "other"
Invalid(settings) ==
    settings.given /\ (settings.unknown \/ InvalidPaths(settings.req) \/ InvalidPaths(settings.res))

\* C29: once initialization has succeeded no route has settings of an
\* invalid shape, and no response is ever translated with settings of an
\* invalid shape.
C29_InvalidRejected ==
    /\ rt.phase = "initialized" => \A i \in 1..Len(rt.routes) : ~Invalid(rt.routes[i])
    /\ rt.line.msg # "" => ~Invalid(rt.line.settings)

\* C30: the tag level map of the plugin has the built-in level names and the
\* user's tags as its keys and no others, every user tag (a built-in name
\* among them) has the value of its configured level, and every other built-in
\* name its own value; this holds at registration and after every event and
\* every change of a threshold.
C30_TagLevelMap ==
    /\ DOMAIN nipo.tagLevels = LevelNames \cup DOMAIN options.tagLevels
    /\ \A t \in DOMAIN options.tagLevels : nipo.tagLevels[t] = values[options.tagLevels[t]]
    /\ \A t \in LevelNames \ DOMAIN options.tagLevels : nipo.tagLevels[t] = values[t]

\* with warn overridden to error, a threshold was changed and then an event
\* tagged warn was written at the level error
C30_Witness ==
    /\ "warn" \in DOMAIN options.tagLevels
    /\ nipo.tagLevels["warn"] = values["error"]
    /\ eventLevel # responseLevel
    /\ last.kind = "logApp"
    /\ last.tags = <<"warn">>
    /\ \E i \in 1..Len(out) : out[i].msg = "log-app" /\ out[i].level = "error"

\* C31: for a request that ends without a response, the gate is not called
\* (a gate that would throw does no harm), nothing is traced, and the one
\* record written is the debug record 'request-aborted' of the response
\* logger, with the fields req and route only.
C31_Aborted ==
    (Ran("response") /\ ~last.response /\ last.failAt \in {"none", "gate"}) =>
        /\ last.caught = "none"
        /\ Len(out) = 1
        /\ out[1].logger = "response"
        /\ out[1].level = "debug"
        /\ out[1].msg = "request-aborted"
        /\ out[1].fields = {"req", "route"}
        /\ out[1].request = last.request
        /\ out[1].visible <=> (responseLevel <= values["debug"])

\* an aborted request with a configured gate that throws when it is called:
\* the record is written, and seen at the threshold debug
C31_Witness ==
    /\ Ran("response") /\ ~last.response /\ last.failAt = "gate"
    /\ options.logResponse
    /\ responseLevel = values["debug"]
    /\ Len(out) = 1 /\ out[1].msg = "request-aborted" /\ out[1].visible

\* the level a dynamic handler's group refers to
RefOf(handler) == IF handler \in {"requestInternal", "logInternal"} THEN "debug" ELSE "info"

\* C32: on every server that has the plugin, each dynamic handler of that
\* server is subscribed exactly once iff its group's level >= that server's
\* threshold, no handler of another server is subscribed to its events, and
\* the records of its events are written to its own event logger only.
C32_PerServer ==
    /\ \A s \in sv.registered, h \in Dynamic, o \in Servers :
        sv.events[s][h][o] = IF o = s /\ values[RefOf(h)] >= sv.level[s] THEN 1 ELSE 0
    /\ \A o \in Servers : o # sv.emitted.server => sv.emitted.written[o] = 0

\* C33: every property map that the response translator is given is a Map
\* made by the onPreStart validation, for requests served before and after
\* initialization.
C33_OnlyConverted ==
    rt.line.msg # "" =>
        /\ rt.line.settings.req.kind \in {"undefined", "map"}
        /\ rt.line.settings.res.kind \in {"undefined", "map"}

Static == {"response", "requestError", "start", "stop"}

\* C34: the response, request error, start and stop handlers are subscribed
\* exactly once in every state, at every threshold; a step that leaves the
\* event logger's threshold as it is (a response logger threshold change
\* among them) changes no subscription; and a threshold change that leaves
\* info active leaves the app handlers as they are, also when it turns the
\* internal handlers off.
C34_Frame ==
    /\ [](\A h \in Static : listeners[h] = 1)
    /\ [][eventLevel' = eventLevel => listeners' = listeners]_vars
    /\ [][(eventLevel <= values["info"] /\ eventLevel' <= values["info"]) =>
            /\ listeners'["requestApp"] = listeners["requestApp"]
            /\ listeners'["logApp"] = listeners["logApp"]]_vars

\* the threshold went from debug to info: the internal handlers are off, the
\* app handlers and the request error handler are still on
C34_Witness ==
    /\ last.kind = "level-change"
    /\ last.prevVal = values["debug"]
    /\ eventLevel = values["info"]
    /\ listeners["requestInternal"] = 0 /\ listeners["logInternal"] = 0
    /\ listeners["requestApp"] = 1 /\ listeners["logApp"] = 1
    /\ listeners["requestError"] = 1

\* what the toJSON method of object j returns, or the object itself
Converted(j) ==
    IF js.heap[j].toJSON.where # "none" THEN js.heap[j].toJSON.ret ELSE Ref(j)

\* safeJsonObject(obj) returned for an object whose conversion is a
\* composite: the slots of that composite that hold values whose conversion is
\* a composite too
Converting ==
    /\ js.first.status = "returned"
    /\ js.obj.t = "object"
    /\ Converted(js.obj.n).t = "object"

ConvertedSlots ==
    {i \in DOMAIN js.heap[Converted(js.obj.n).n].slots :
        LET v == js.heap[Converted(js.obj.n).n].slots[i]
        IN v.t = "object" /\ Converted(v.n).t = "object"}

SlotIn(i) == js.heap[Converted(js.obj.n).n].slots[i]
SlotOut(i) == js.first.heap[js.first.ret.n].slots[i]

RespondedAt(info) ==
    IF info.responded # 0 THEN info.responded
    ELSE IF info.completed # 0 THEN info.completed ELSE 9

C37_SetOfTags ==
    lk.done =>
        /\ lk.result \in LevelNames \cup {lk.defaultLevel}
        /\ \A T \in SeqsUpTo(LookupTags, MaxTags) :
            Matched(T, lk.map) = Matched(lk.tags, lk.map) =>
                lookupLevel(T, lk.defaultLevel, lk.map) = lk.result
        /\ lookupLevel(lk.tags \o lk.tags \o <<"unknown">>, lk.defaultLevel, lk.map) = lk.result

\* the level of hello (debug) and of my (warn): my wins although hello comes
\* last and twice
C37_Witness ==
    /\ lk.done
    /\ lk.tags = <<"my", "hello", "hello">>
    /\ lk.map = prepareLevelMap([my |-> "warn", hello |-> "debug"])
    /\ lk.result = "warn"

\* the value given for the input value, below the composites of path, keeps
\* the input's structure: a big integer is its digits with n, a composite of
\* path is '[Circular]', any other scalar is itself, and any other composite
\* is a composite of the same kind with as many slots, each keeping the
\* structure of the input's slot
RECURSIVE Preserved(_, _, _)
Preserved(input, given, path) ==
    IF input.t = "bigint" THEN given = String(toString(input.n) \o "n")
    ELSE IF input.t # "object" THEN given = input
    ELSE IF input \in path THEN given = String("[Circular]")
    ELSE /\ given.t = "object"
         /\ js.first.heap[given.n].kind = js.heap[input.n].kind
         /\ Len(js.first.heap[given.n].slots) = Len(js.heap[input.n].slots)
         /\ \A i \in DOMAIN js.heap[input.n].slots :
              Preserved(js.heap[input.n].slots[i], js.first.heap[given.n].slots[i],
                        path \cup {input})

\* C38: for an input without toJSON methods, safeJsonObject returns, and its
\* result has the kinds, lengths and keys of the input at every position,
\* with '<digits>n' for every big integer, '[Circular]' for every reference
\* to a composite of the current path, and every other scalar as it is.
C38_StructureKept ==
    js.first # NotCalled =>
        /\ js.first.status = "returned"
        /\ Preserved(js.obj, js.first.ret, {})

\* an array that holds itself, a big integer in an object, and a string
C38_Witness ==
    /\ js.first.status = "returned"
    /\ js.obj = Ref(1)
    /\ js.heap[1] = Obj("array", <<Ref(1), Ref(2)>>, NoToJSON)
    /\ js.heap[2] = Obj("object", <<BigInt(7), String("x")>>, NoToJSON)
    /\ js.first.ret # js.obj

=============================================================================
